---- MODULE Spec2Model ----
(***************************************************************************)
(* Verification model of the scraper side of automarketplaceagre:          *)
(*   - ScraperRepository (backend/scrapers/repository.py): the listing     *)
(*     store, its upserts and its stale deletion;                          *)
(*   - run_single_scraper / run_all_scrapers_async / main                  *)
(*     (backend/scrapers/main.py): one run over the configured adapters;   *)
(*   - AsyncBaseScraper.scrape_all and the adapters' locator enumeration   *)
(*     (backend/scrapers/scrapers/*.py, scrapers/scrapers/veego_scraper.py)*)
(*                                                                         *)
(*   - CurlCffiScraper.fetch_page, clean_label / norm_label, the canonical *)
(*     catalog and the mappings (repository.py), seed_source_taxonomy      *)
(*     (scrapers/seeders) and the resolver (backend/scrapers/resolver.py). *)
(*                                                                         *)
(* The specifications share the variables:                                 *)
(*   SpecStore       arbitrary sequences of repository calls;              *)
(*   SpecRun         consecutive runs of main() over the adapters;         *)
(*   SpecCrawl       one adapter's scrape_all, locator enumeration         *)
(*                   included;                                             *)
(*   SpecFetch       one fetch_page of the impersonating transport;        *)
(*   SpecLabel       clean_label and norm_label on one label;              *)
(*   SpecCatalog     arbitrary upserts of makes, series and models;        *)
(*   SpecSeed        seed_source_taxonomy on one tree, twice;              *)
(*   SpecResolveOne  resolve_one_listing after a seeding;                  *)
(*   SpecResolveAll  passes of resolve_all_unresolved;                     *)
(*   SpecSites       two sites seeded, listings of both, passes;           *)
(*   SpecRetry       one listing, its site's seeding, passes run again     *)
(*                   and again;                                            *)
(*   SpecScrape      run_single_scraper: scrape_all, then the save and     *)
(*                   the stale deletion on a store of an earlier run;      *)
(*   SpecVeego       VeegoExtractor._fetch_makes and iter_makes;           *)
(*   SpecRecrawl     a resolved listing saved again by later crawls.       *)
(*                                                                         *)
(* The collection is a bag of documents: MongoDB keeps two documents with  *)
(* equal fields apart, so uniqueness of source_url is a property of the    *)
(* upsert, not of the representation.  The timestamps (created_at,         *)
(* updated_at, last_seen_at) are written from utcnow() and read by no      *)
(* scraper code; they are not part of the document record.                 *)
(***************************************************************************)
EXTENDS Integers, Sequences, FiniteSets, Bags, TLC

\* ---------------------------------------------------------------- bounds
NumUrls == 2          \* distinct source URLs
NumData == 2          \* distinct values of a listing's scraped fields
NumAdapters == 2      \* adapters taken from get_active_scrapers(), in order
MaxItems == 2         \* longest list handed to save_listings
MaxSaves == 2         \* save_listing / save_listings calls in one behaviour of SpecStore
MaxRuns == 2          \* consecutive runs of main() in SpecRun
NumCrawlData == 1     \* payloads a crawl can report for one URL in SpecRun
batch_size == 2       \* ScraperConfig.batch_size in SpecCrawl
MaxMakes == 3         \* makes the site's API lists
MaxMsm == 3           \* make/series/model combinations of the site
MaxLocators == 5      \* listing locators one enumeration finds
MaxRepeats == 1       \* locators that repeat the URL of an earlier locator
MaxLabelLen == 4      \* longest label, in symbols, given to clean_label in SpecLabel
MaxCalls == 3         \* upsert_make / upsert_series / upsert_model calls in SpecCatalog
MaxNodes == 4         \* nodes of the source tree given to seed_source_taxonomy
MaxSeedRuns == 2      \* consecutive runs of seed_source_taxonomy
MaxListings == 2      \* listings in car_listings when resolve_all_unresolved runs
MaxPasses == 2        \* passes of resolve_all_unresolved in one behaviour
MaxPassNodes == 2     \* nodes of the tree seeded in SpecResolveAll
MaxSiteNodes == 3     \* nodes of the tree of one site in SpecSites
MaxApiMakes == 3      \* make objects in the response of the Veego makes API

\* ------------------------------------------------------------ vocabulary
\* get_active_scrapers(): the site_name of each active scraper class.
SiteNames == <<"autodiiler", "auto24", "veego">>

Adapters == 1..NumAdapters
site_name(a) == SiteNames[a]
Sites == {site_name(a) : a \in Adapters}

\* Source URLs and run ids are opaque strings (uuid4().hex for a run).
UrlNames == <<"u1", "u2", "u3", "u4", "u5", "u6", "u7", "u8">>
Urls == {UrlNames[i] : i \in 1..NumUrls}
Data == 1..NumData

\* A value Python treats as absent: None, a missing key, an empty string.
None == "none"

RunNames == <<"r1", "r2", "r3", "r4">>
RunIds == {RunNames[i] : i \in 1..MaxRuns}

\* What a scraper hands to the repository.  source_url / source_site may be
\* missing in a payload built by hand; a crawl always sets both.
Items == [source_url : Urls \cup {None}, source_site : Sites \cup {None}, data : Data]

\* Documents of the car_listings collection.
Docs == [source_url : Urls, source_site : Sites, data : Data,
         last_seen_run_id : RunIds \cup {None}]

VARIABLES
    listings,     \* car_listings: a bag of Docs
    ret,          \* what the last repository call returned (or raised)
    lastUpsert,   \* history: the item of the most recent upsert of each source_url
    nSaves        \* history: save calls made so far (SpecStore)

VARIABLES
    run,          \* number of the run of main() in progress (0: none yet)
    mainPc,       \* where main() is: "idle" | "gather"
    apc,          \* per adapter, where its run_single_scraper task is
    crawl,        \* per adapter, what scrape_all returned (or that it raised)
    out,          \* per adapter, what the task returned (or that it raised)
    results,      \* processed_results of run_all_scrapers_async
    escaped,      \* an exception left run_all_scrapers_async
    resolveCalls, \* the limit of each resolve_all_unresolved call of this run
    log,          \* history: the repository calls of this run, in order
    did,          \* history: per adapter, the upserts performed and whether it deleted
    preRun        \* history: the store when this run started

storeVars == <<listings, ret, lastUpsert, nSaves>>
runVars == <<run, mainPc, apc, crawl, out, results, escaped, resolveCalls, log, did, preRun>>

VARIABLES
    crawler,      \* the adapter whose scrape_all is followed in SpecCrawl
    cpc,          \* where its scrape_all is
    round,        \* 1: the makes/models pass of VeegoScraper.scrape_all;
                  \* 2: the pass of build_make_series_model
    tasks,        \* the awaited fetches of the enumeration: "inflight" | "done"
    nMsm,         \* len(make_series_models)
    msmPos,       \* i of "for i in range(0, len(make_series_models), batch_size)"
    urls,         \* urls of scrape_all: the locators get_listing_urls found
    status,       \* per locator: "notstarted", "inflight" or how its task ended
    batch_num,    \* batch_num of scrape_all's loop
    all_listings, \* all_listings of scrape_all
    sleeps        \* history: sleeps taken between the batches of scrape_all

crawlVars == <<crawler, cpc, round, tasks, nMsm, msmPos, urls, status, batch_num,
               all_listings, sleeps>>

VARIABLES
    fpc,          \* where fetch_page is: "idle" | "requesting" | "sleeping" | "returned"
    attempt,      \* attempt of "for attempt in range(self.max_retries)"
    requests,     \* history: how each request of this fetch ended
    naps,         \* history: the seconds of each backoff sleep of this fetch
    fetched       \* what fetch_page returned

fetchVars == <<fpc, attempt, requests, naps, fetched>>

VARIABLES
    nl            \* SpecLabel: a label and what clean_label / norm_label made of it

labelVars == <<nl>>

VARIABLES
    makes,        \* the makes collection: a set of rows, each with its own id
    series,       \* the series collection
    models,       \* the models collection
    mappings,     \* the taxonomy_mappings collection
    nextId,       \* the ObjectId the next inserted document gets
    calls,        \* history: the upsert_make/_series/_model calls of SpecCatalog
    extractor,    \* the SourceTaxonomyExtractor: its source_site and its tree
    seedRuns,     \* history: runs of seed_source_taxonomy completed
    firstSeed,    \* history: the four collections as the first run left them
    seeded,       \* history: per node of the tree, what the last run upserted
    veego         \* VeegoExtractor: one _fetch_makes call and what iter_makes yields

taxVars == <<makes, series, models, mappings, nextId, calls, extractor, seedRuns,
             firstSeed, seeded, veego>>

VARIABLES
    car_listings, \* the listings as the resolver reads and writes them
    resolution,   \* a listing given to resolve_one_listing and the ids returned
    passes        \* history: what each resolve_all_unresolved pass returned

resolveVars == <<car_listings, resolution, passes>>

auxVars == <<fetchVars, labelVars, taxVars, resolveVars>>

vars == <<listings, ret, lastUpsert, nSaves,
          run, mainPc, apc, crawl, out, results, escaped, resolveCalls, log, did, preRun,
          crawler, cpc, round, tasks, nMsm, msmPos, urls, status, batch_num,
          all_listings, sleeps,
          fpc, attempt, requests, naps, fetched,
          nl,
          makes, series, models, mappings, nextId, calls, extractor, seedRuns,
          firstSeed, seeded, veego,
          car_listings, resolution, passes>>

\* ------------------------------------------------------------ collection
Matching(store, url) == {d \in BagToSet(store) : d.source_url = url}

\* The $set part of the upserts: every key of the payload, and the run
\* marker when a run_id is given.
SetFields(d, item, run_id) ==
    [d EXCEPT !.source_url = item.source_url,
              !.source_site = item.source_site,
              !.data = item.data,
              !.last_seen_run_id = IF run_id # None THEN run_id ELSE @]

NewDoc(item, run_id) ==
    [source_url |-> item.source_url, source_site |-> item.source_site,
     data |-> item.data, last_seen_run_id |-> run_id]

\* update_one({"source_url": ...}, {"$set": ..., "$setOnInsert": ...}, upsert=True)
update_one_upsert(store, item, run_id) ==
    LET m == Matching(store, item.source_url) IN
    IF m = {}
    THEN store (+) SetToBag({NewDoc(item, run_id)})
    ELSE LET d == CHOOSE x \in m : TRUE
         IN  (store (-) SetToBag({d})) (+) SetToBag({SetFields(d, item, run_id)})

\* Whether the upsert of item inserts (upserted_id is not None).
Inserts(store, item) == Matching(store, item.source_url) = {}

\* The validation of save_listing / save_listings.
Valid(item) == item.source_url # None /\ item.source_site # None

RECURSIVE SelectValid(_)
SelectValid(items) ==
    IF items = <<>> THEN <<>>
    ELSE IF Valid(Head(items)) THEN <<Head(items)>> \o SelectValid(Tail(items))
    ELSE SelectValid(Tail(items))

\* bulk_write(ops, ordered=False): the server performs the requests in an
\* arbitrary order; order is the permutation it takes, and the first n
\* requests of it are the ones performed.
RECURSIVE ApplyOps(_, _, _, _, _)
ApplyOps(store, ops, order, n, run_id) ==
    IF n = 0 THEN store
    ELSE update_one_upsert(ApplyOps(store, ops, order, n - 1, run_id),
                           ops[order[n]], run_id)

RECURSIVE CountInserts(_, _, _, _, _)
CountInserts(store, ops, order, n, run_id) ==
    IF n = 0 THEN 0
    ELSE CountInserts(store, ops, order, n - 1, run_id)
         + (IF Inserts(ApplyOps(store, ops, order, n - 1, run_id), ops[order[n]])
            THEN 1 ELSE 0)

Orders(n) == {f \in [1..n -> 1..n] : \A i, j \in 1..n : f[i] = f[j] => i = j}

\* delete_many({"source_site": S, "last_seen_run_id": {"$ne": r}}): $ne also
\* matches a document without the field.
StaleAnySite(d, source_site, run_id) ==
    d.last_seen_run_id # run_id

StaleSeenInRun(d, source_site, run_id) ==
    d.source_site = source_site /\ d.last_seen_run_id = run_id

StaleOtherSites(d, source_site, run_id) ==
    d.source_site # source_site /\ d.last_seen_run_id # run_id

\* Every listing of the site is stale.
StaleWholeSite(d, source_site, run_id) ==
    d.source_site = source_site

Stale(d, source_site, run_id) ==
    d.source_site = source_site /\ d.last_seen_run_id # run_id

delete_many_stale(store, source_site, run_id) ==
    LET keep == {d \in BagToSet(store) : ~Stale(d, source_site, run_id)}
    IN  [d \in keep |-> store[d]]

RECURSIVE SumCopies(_, _)
SumCopies(store, ds) ==
    IF ds = {} THEN 0
    ELSE LET d == CHOOSE x \in ds : TRUE
         IN  store[d] + SumCopies(store, ds \ {d})

\* The history of upserts: the item most recently upserted per source_url,
\* "most recent" being the order of the calls and, within one call, the
\* order of the list.
RECURSIVE Record(_, _)
Record(hist, ops) ==
    IF ops = <<>> THEN hist
    ELSE Record({h \in hist : h.source_url # Head(ops).source_url} \cup {Head(ops)},
                Tail(ops))

\* ------------------------------------------------------------ repository
\* ScraperRepository.save_listing
save_listing(item, run_id) ==
    /\ nSaves < MaxSaves
    /\ nSaves' = nSaves + 1
    /\ IF ~Valid(item)
       THEN /\ ret' = [op |-> "save_listing", raised |-> TRUE]
            /\ UNCHANGED <<listings, lastUpsert>>
       ELSE /\ listings' = update_one_upsert(listings, item, run_id)
            /\ lastUpsert' = Record(lastUpsert, <<item>>)
            /\ ret' = [op |-> "save_listing", raised |-> FALSE,
                       inserted |-> Inserts(listings, item)]
    /\ UNCHANGED <<runVars, crawlVars, auxVars>>

\* ScraperRepository.save_listings
save_listings(items, run_id, order) ==
    LET ops == SelectValid(items)
        saved == CountInserts(listings, ops, order, Len(ops), run_id)
    IN  /\ nSaves < MaxSaves
        /\ nSaves' = nSaves + 1
        /\ order \in Orders(Len(ops))
        /\ listings' = ApplyOps(listings, ops, order, Len(ops), run_id)
        /\ lastUpsert' = Record(lastUpsert, ops)
        /\ ret' = [op |-> "save_listings", saved |-> saved,
                   updated |-> Len(ops) - saved,
                   errors |-> Len(items) - Len(ops), processed |-> Len(ops)]
        /\ UNCHANGED <<runVars, crawlVars, auxVars>>

\* ScraperRepository.delete_stale_listings
delete_stale_listings(source_site, run_id) ==
    /\ listings' = delete_many_stale(listings, source_site, run_id)
    /\ ret' = [op |-> "delete_stale_listings", source_site |-> source_site,
               run_id |-> run_id,
               deleted |-> SumCopies(listings,
                   {d \in BagToSet(listings) : Stale(d, source_site, run_id)})]
    /\ UNCHANGED <<lastUpsert, nSaves>>
    /\ UNCHANGED <<runVars, crawlVars, auxVars>>

\* The payloads the callers pass: every complete payload, one without
\* source_url and one without source_site.
Payloads ==
    {i \in Items : Valid(i)}
    \cup {i \in Items : /\ i.data = 1
                        /\ \/ i.source_url = None /\ i.source_site = site_name(1)
                           \/ i.source_url = UrlNames[1] /\ i.source_site = None}

\* ----------------------------------------------------------------- crawl
\* One adapter's scrape_all: the enumeration of its locators, then the
\* batches of listing fetches.  AutoDiiler and Veego enumerate through the
\* make/series/model taxonomy of the site's API, Auto24 pages through the
\* search results; Veego's own scrape_all first loads its translations and
\* the makes and models.  The make/series/model a locator carries in the
\* taxonomy adapters, and the source_taxonomy it leaves on the listing, are
\* not part of the locator here.
Crawlers == 1..Len(SiteNames)

Enumeration(a) == IF site_name(a) = "auto24" THEN "pages" ELSE "taxonomy"

HasTranslator(a) == site_name(a) = "veego"

Min(x, y) == IF x < y THEN x ELSE y

Inflight(n) == [i \in 1..n |-> "inflight"]

Settled(ts) == \A i \in 1..Len(ts) : ts[i] # "inflight"

\* How the task of one listing can end.
Outcomes == {"ok", "fetch_none", "parse_none", "parse_raise", "task_raise"}

Failed(result) == [kind |-> result]

\* _fetch_and_parse_listing: no page gives None, a parse that raises is
\* caught and gives None, a parse that finds nothing gives its None, and a
\* parsed listing is annotated with its source_url and the site_name.
fetch_and_parse_listing(url, site, outcome) ==
    IF outcome = "task_raise" THEN Failed("exception")
    ELSE IF outcome = "fetch_none" THEN Failed("none")
    ELSE IF outcome = "parse_raise" THEN Failed("none")
    ELSE IF outcome = "parse_none" THEN Failed("none")
    ELSE [kind |-> "listing",
          listing |-> [source_url |-> url, source_site |-> site, data |-> 1]]

\* _process_batch after the gather: the results in the order of the urls,
\* exceptions and None left out.
RECURSIVE process_batch(_)
process_batch(rs) ==
    IF rs = <<>> THEN <<>>
    ELSE LET r == Head(rs)
         IN  IF r.kind = "exception" THEN process_batch(Tail(rs))
             ELSE IF r.kind # "none" THEN <<r.listing>> \o process_batch(Tail(rs))
             ELSE process_batch(Tail(rs))

\* asyncio.gather(*tasks, return_exceptions=True) in _process_batch
gather_raises == FALSE

gather_return_exceptions == TRUE

\* batches = [urls[i : i + batch_size] for i in range(0, len(urls), batch_size)]
total_batches(n) == (n + batch_size - 1) \div batch_size

BatchLo(b) == (b - 1) * batch_size + 1

WholeRest(b, n) == n

BatchHi(b, n) == Min(b * batch_size, n)

\* "if batch_num < total_batches: await asyncio.sleep(self.request_delay)"
SleepAfterEveryBatch(b, total) == TRUE

SleepAfterBatch(b, total) == b < total

\* get_listing_urls of the taxonomy adapters: the longer pause
\* "if (i // self.batch_size) % 30 == 0 and i != 0"
ExtendedPauseEvery == 30

ExtendedPause(i) == (i \div batch_size) % ExtendedPauseEvery = 0 /\ i # 0

\* len(urls)
nUrls == Len(urls)

Range(f) == {f[i] : i \in DOMAIN f}

\* The next found listings that no earlier query returned.
Fresh(found) == [k \in 1..found |-> UrlNames[Cardinality(Range(urls)) + k]]

\* The listings a query can return again although an earlier query of the
\* enumeration returned them.
Again == {<<>>} \cup (IF Len(urls) - Cardinality(Range(urls)) < MaxRepeats
                       THEN {<<u>> : u \in Range(urls)} ELSE {})

NoStatus == [i \in 1..MaxLocators |-> "notstarted"]

InFlight ==
    Cardinality({i \in 1..Len(tasks) : tasks[i] = "inflight"})
    + Cardinality({i \in 1..MaxLocators : status[i] = "inflight"})

CrawlIdle(c) ==
    /\ crawler = c
    /\ cpc = "init"
    /\ round = IF HasTranslator(c) THEN 1 ELSE 2
    /\ tasks = <<>>
    /\ nMsm = 0
    /\ msmPos = 0
    /\ urls = <<>>
    /\ status = NoStatus
    /\ batch_num = 0
    /\ all_listings = <<>>
    /\ sleeps = 0

\* The tasks of batch b of scrape_all are created and gathered.
StartBatch(b) ==
    /\ batch_num' = b
    /\ cpc' = "listings"
    /\ status' = [i \in 1..MaxLocators |->
                    IF BatchLo(b) <= i /\ i <= BatchHi(b, nUrls)
                    THEN "inflight" ELSE status[i]]

\* get_listing_urls returns n locators: "if not urls: return []", else the
\* first batch.
EnumerationReturns(n) ==
    /\ UNCHANGED urls
    /\ tasks' = <<>>
    /\ nMsm' = 0
    /\ msmPos' = 0
    /\ IF n = 0
       THEN cpc' = "done" /\ UNCHANGED <<status, batch_num>>
       ELSE StartBatch(1)

\* scrape_all begins: Veego fetches its translations, the taxonomy adapters
\* fetch the makes, Auto24 fetches the first page of results.
Begin ==
    /\ cpc = "init"
    /\ cpc' = IF HasTranslator(crawler) THEN "translator"
              ELSE IF Enumeration(crawler) = "pages" THEN "pages" ELSE "makes"
    /\ tasks' = Inflight(1)
    /\ UNCHANGED <<crawler, round, nMsm, msmPos, urls, status, batch_num,
                   all_listings, sleeps, storeVars, runVars, auxVars>>

\* VeegoScraper.scrape_all: VeegoTranslator.from_js_string(page) raises
\* when the page could not be fetched or holds no translation.
TranslatorDone(ok) ==
    /\ cpc = "translator"
    /\ IF ok THEN cpc' = "makes" /\ tasks' = Inflight(1)
             ELSE cpc' = "raised" /\ tasks' = <<>>
    /\ UNCHANGED <<crawler, round, nMsm, msmPos, urls, status, batch_num,
                   all_listings, sleeps, storeVars, runVars, auxVars>>

\* Every _get_models of the gather has returned.  The first pass of Veego
\* goes on to get_listing_urls, whose build_make_series_model fetches the
\* makes again; the second pass holds the make/series/model list, and
\* get_listing_urls starts on its first batch, or returns no url.
ModelsReturn(total) ==
    IF round = 1
    THEN /\ round' = 2
         /\ cpc' = "makes"
         /\ tasks' = Inflight(1)
         /\ nMsm' = 0
         /\ UNCHANGED <<msmPos, urls, status, batch_num>>
    ELSE IF total = 0
    THEN /\ EnumerationReturns(0)
         /\ UNCHANGED round
    ELSE /\ cpc' = "msm"
         /\ tasks' = Inflight(Min(batch_size, total))
         /\ nMsm' = total
         /\ msmPos' = 0
         /\ UNCHANGED <<round, urls, status, batch_num>>

\* _get_makes returns m makes (none when the fetch or the decoding fails);
\* one _get_models per make is gathered, all at once.
MakesDone(m) ==
    /\ cpc = "makes"
    /\ IF m = 0
       THEN ModelsReturn(0)
       ELSE /\ cpc' = "models"
            /\ tasks' = Inflight(m)
            /\ UNCHANGED <<round, nMsm, msmPos, urls, status, batch_num>>
    /\ UNCHANGED <<crawler, all_listings, sleeps, storeVars, runVars, auxVars>>

\* One _get_models returns the combinations of its make (none on failure).
ModelDone(i, found) ==
    /\ cpc = "models"
    /\ i \in 1..Len(tasks)
    /\ tasks[i] = "inflight"
    /\ nMsm + found <= MaxMsm
    /\ tasks' = [tasks EXCEPT ![i] = "done"]
    /\ nMsm' = IF round = 2 THEN nMsm + found ELSE nMsm
    /\ UNCHANGED <<crawler, cpc, round, msmPos, urls, status, batch_num,
                   all_listings, sleeps, storeVars, runVars, auxVars>>

ModelsJoin ==
    /\ cpc = "models"
    /\ Settled(tasks)
    /\ ModelsReturn(nMsm)
    /\ UNCHANGED <<crawler, all_listings, sleeps, storeVars, runVars, auxVars>>

\* One get_listings_make_series_model of the current batch returns the
\* locators it found, having fetched its pages one after the other.
MsmTaskDone(i, found, again) ==
    /\ cpc = "msm"
    /\ i \in 1..Len(tasks)
    /\ tasks[i] = "inflight"
    /\ again \in Again
    /\ nUrls + Len(again) + found <= MaxLocators
    /\ tasks' = [tasks EXCEPT ![i] = "done"]
    /\ urls' = urls \o again \o Fresh(found)
    /\ UNCHANGED <<crawler, cpc, round, nMsm, msmPos, status, batch_num,
                   all_listings, sleeps, storeVars, runVars, auxVars>>

\* The next turn of get_listing_urls' loop over the combinations.
MsmLoopNext ==
    IF msmPos + batch_size < nMsm
    THEN /\ msmPos' = msmPos + batch_size
         /\ cpc' = "msm"
         /\ tasks' = Inflight(Min(batch_size, nMsm - (msmPos + batch_size)))
         /\ UNCHANGED <<nMsm, urls, status, batch_num>>
    ELSE EnumerationReturns(nUrls)

\* The batch of combinations is done: pause, or go on.
MsmJoin ==
    /\ cpc = "msm"
    /\ Settled(tasks)
    /\ IF ExtendedPause(msmPos) \/ msmPos + batch_size < nMsm
       THEN /\ cpc' = "msmSleep"
            /\ tasks' = <<>>
            /\ UNCHANGED <<nMsm, msmPos, urls, status, batch_num>>
       ELSE MsmLoopNext
    /\ UNCHANGED <<crawler, round, all_listings, sleeps, storeVars, runVars, auxVars>>

MsmSleepDone ==
    /\ cpc = "msmSleep"
    /\ MsmLoopNext
    /\ UNCHANGED <<crawler, round, all_listings, sleeps, storeVars, runVars, auxVars>>

\* Auto24Scraper.get_listing_urls: one page of results is fetched at a
\* time; a page that fails or lists nothing ends the enumeration, otherwise
\* its new urls are added and the loop sleeps before the next page.
PageDone(more, found) ==
    /\ cpc = "pages"
    /\ nUrls + found <= MaxLocators
    /\ IF more
       THEN /\ cpc' = "pageSleep"
            /\ tasks' = <<>>
            /\ urls' = urls \o Fresh(found)
            /\ UNCHANGED <<nMsm, msmPos, status, batch_num>>
       ELSE EnumerationReturns(nUrls)
    /\ UNCHANGED <<crawler, round, all_listings, sleeps, storeVars, runVars, auxVars>>

PageSleepDone ==
    /\ cpc = "pageSleep"
    /\ cpc' = "pages"
    /\ tasks' = Inflight(1)
    /\ UNCHANGED <<crawler, round, nMsm, msmPos, urls, status, batch_num,
                   all_listings, sleeps, storeVars, runVars, auxVars>>

\* The task of one listing of the current batch ends.
ListingDone(i, outcome) ==
    /\ cpc = "listings"
    /\ status[i] = "inflight"
    /\ status' = [status EXCEPT ![i] = outcome]
    /\ UNCHANGED <<crawler, cpc, round, tasks, nMsm, msmPos, urls, batch_num,
                   all_listings, sleeps, storeVars, runVars, auxVars>>

\* The next turn of scrape_all's loop over the batches.
LoopNext ==
    IF batch_num < total_batches(nUrls)
    THEN StartBatch(batch_num + 1)
    ELSE cpc' = "done" /\ UNCHANGED <<status, batch_num>>

\* The gather of the batch returns: its listings are appended, and the loop
\* sleeps unless this was the last batch.
BatchJoin ==
    LET lo == BatchLo(batch_num)
        hi == BatchHi(batch_num, nUrls)
        gathered == [j \in 1..(hi - lo + 1) |->
                      fetch_and_parse_listing(urls[lo + j - 1], site_name(crawler),
                                              status[lo + j - 1])]
    IN  /\ cpc = "listings"
        /\ \A i \in 1..MaxLocators : status[i] # "inflight"
        /\ IF ~gather_return_exceptions
              /\ \E j \in 1..Len(gathered) : gathered[j].kind = "exception"
           THEN /\ cpc' = "raised"
                /\ UNCHANGED <<status, batch_num, all_listings, sleeps>>
           ELSE /\ all_listings' = all_listings \o process_batch(gathered)
                /\ IF SleepAfterBatch(batch_num, total_batches(nUrls))
                   THEN /\ cpc' = "sleep"
                        /\ sleeps' = sleeps + 1
                        /\ UNCHANGED <<status, batch_num>>
                   ELSE /\ LoopNext
                        /\ UNCHANGED sleeps
        /\ UNCHANGED <<crawler, round, tasks, nMsm, msmPos, urls, storeVars, runVars, auxVars>>

SleepDone ==
    /\ cpc = "sleep"
    /\ LoopNext
    /\ UNCHANGED <<crawler, round, tasks, nMsm, msmPos, urls, all_listings, sleeps,
                   storeVars, runVars, auxVars>>

\* ------------------------------------------------------------ fetch_page
\* CurlCffiScraper.fetch_page, the transport of Auto24Scraper: one fetch.
\* CurlCffiScraper.__init__(max_retries=3)
max_retries == 3

\* How a request can end: a response with a status code, a timeout, or
\* another error of the transport.
StatusCodes == {200, 204, 403, 404, 500}

Responses == [kind : {"status"}, code : StatusCodes]
             \cup {[kind |-> "timeout", code |-> 0], [kind |-> "error", code |-> 0]}

\* response.raise_for_status() raises HTTPError unless 200 <= status < 400.
never_raises(resp) == FALSE

raise_for_status(resp) == resp.kind = "status" /\ ~(200 <= resp.code /\ resp.code < 400)

\* "if attempt < self.max_retries - 1:" sleep and continue
AlwaysRetry(n) == TRUE

RetryLeft(n) == n < max_retries - 1

\* The sleep before the next attempt: 2 * (attempt + 1) seconds after an
\* HTTP error or a 403, 2 seconds after a timeout or another error.
Backoff(resp, n) == IF resp.kind = "status" THEN 2 * (n + 1) ELSE 2

NotFetched == [kind |-> "pending"]

FetchIdle ==
    /\ fpc = "idle"
    /\ attempt = 0
    /\ requests = <<>>
    /\ naps = <<>>
    /\ fetched = NotFetched

\* fetch_page is called: the first request goes out, or the loop over no
\* attempt ends at once.
FetchStart ==
    /\ fpc = "idle"
    /\ IF max_retries > 0
       THEN fpc' = "requesting" /\ UNCHANGED fetched
       ELSE fpc' = "returned" /\ fetched' = [kind |-> "none"]
    /\ UNCHANGED <<attempt, requests, naps, storeVars, runVars, crawlVars, labelVars, taxVars, resolveVars>>

\* The end of the attempt: sleep and go on when attempts are left, else
\* fall out of the loop and return None.
RetryOrGiveUp(resp) ==
    IF RetryLeft(attempt)
    THEN /\ fpc' = "sleeping"
         /\ naps' = Append(naps, Backoff(resp, attempt))
         /\ UNCHANGED fetched
    ELSE /\ fpc' = "returned"
         /\ fetched' = [kind |-> "none"]
         /\ UNCHANGED naps

\* The request of this attempt ends.
Respond(resp) ==
    /\ fpc = "requesting"
    /\ requests' = Append(requests, resp)
    /\ IF resp.kind # "status" \/ raise_for_status(resp)
       THEN RetryOrGiveUp(resp)
       ELSE IF resp.code = 200
       THEN /\ fpc' = "returned"
            /\ fetched' = [kind |-> "text"]
            /\ UNCHANGED naps
       ELSE IF resp.code = 403
       THEN RetryOrGiveUp(resp)
       ELSE /\ fpc' = "returned"
            /\ fetched' = [kind |-> "none"]
            /\ UNCHANGED naps
    /\ UNCHANGED <<attempt, storeVars, runVars, crawlVars, labelVars, taxVars, resolveVars>>

\* The backoff sleep is over: the next attempt.
Wake ==
    /\ fpc = "sleeping"
    /\ fpc' = "requesting"
    /\ attempt' = attempt + 1
    /\ UNCHANGED <<requests, naps, fetched, storeVars, runVars, crawlVars, labelVars, taxVars, resolveVars>>

\* ---------------------------------------------------------------- labels
\* clean_label and norm_label on labels written as sequences of symbols:
\* a digit, a dot, a blank, a word in lower case and capitalised, and the
\* auto24 suffix "(kõik)" in lower and upper case, each taken as a unit.
Symbols == {"2", ".", " ", "seeria", "Seeria", "(kõik)", "(KÕIK)"}

Labels == UNION {[1..n -> Symbols] : n \in 0..MaxLabelLen}

IsDigit(c) == c = "2"

\* str.lower()
LowerSym(c) == IF c = "Seeria" THEN "seeria" ELSE IF c = "(KÕIK)" THEN "(kõik)" ELSE c

lower(s) == [i \in 1..Len(s) |-> LowerSym(s[i])]

\* str.strip()
RECURSIVE lstrip(_)
lstrip(s) == IF s # <<>> /\ Head(s) = " " THEN lstrip(Tail(s)) ELSE s

RECURSIVE rstrip(_)
rstrip(s) == IF s # <<>> /\ s[Len(s)] = " " THEN rstrip(SubSeq(s, 1, Len(s) - 1)) ELSE s

strip(s) == rstrip(lstrip(s))

\* _RE_NUM_DOT.sub(r"\1", s): every match of a digit followed by a dot,
\* found from left to right without overlap, is replaced by the digit.
RECURSIVE num_dot(_)
num_dot(s) ==
    IF Len(s) < 2 THEN s
    ELSE IF IsDigit(s[1]) /\ s[2] = "."
    THEN <<s[1]>> \o num_dot(SubSeq(s, 3, Len(s)))
    ELSE <<s[1]>> \o num_dot(Tail(s))

\* _RE_MULTI_SPACE.sub(" ", s)
RECURSIVE multi_space(_)
multi_space(s) ==
    IF Len(s) < 2 THEN s
    ELSE IF s[1] = " " /\ s[2] = " "
    THEN multi_space(Tail(s))
    ELSE <<s[1]>> \o multi_space(Tail(s))

\* 'if s.lower().endswith("(kõik)"): s = s[: -len("(kõik)")].strip()'
drop_suffix(s) ==
    IF s # <<>> /\ LowerSym(s[Len(s)]) = "(kõik)"
    THEN strip(SubSeq(s, 1, Len(s) - 1))
    ELSE s

clean_label(label) == multi_space(num_dot(drop_suffix(strip(label))))

norm_label(label) == lower(clean_label(label))

LabelIdle == nl = [pc |-> "idle", label |-> <<>>, clean |-> <<>>, norm |-> <<>>,
                   clean2 |-> <<>>, norm2 |-> <<>>]

\* A label is cleaned and normalized.
Normalize ==
    /\ nl.pc = "given"
    /\ nl' = [nl EXCEPT !.pc = "once",
                        !.clean = clean_label(nl.label),
                        !.norm = norm_label(nl.label)]
    /\ UNCHANGED <<storeVars, runVars, crawlVars, fetchVars, taxVars, resolveVars>>

\* The results are cleaned and normalized again.
NormalizeAgain ==
    /\ nl.pc = "once"
    /\ nl' = [nl EXCEPT !.pc = "twice",
                        !.clean2 = clean_label(nl.clean),
                        !.norm2 = norm_label(nl.norm)]
    /\ UNCHANGED <<storeVars, runVars, crawlVars, fetchVars, taxVars, resolveVars>>

\* -------------------------------------------------------------- taxonomy
\* The canonical catalog (makes, series, models) and taxonomy_mappings of
\* ScraperRepository.  A row is a record with the id MongoDB gave it on
\* insert; ids are counted up from 1 and never reused.  The timestamps
\* (created_at, updated_at), "method" and "extra" are written and never
\* read by the seeding or the resolver; they are not part of the rows.

\* None where an ObjectId is expected (series_id of a model directly under
\* its make, the anchors of a make's mapping).
NoId == 0

\* The database the repository methods work on, and what they return.
DB == [makes |-> makes, series |-> series, models |-> models,
       mappings |-> mappings, nextId |-> nextId]

EmptyDB == [makes |-> {}, series |-> {}, models |-> {}, mappings |-> {}, nextId |-> 1]

\* insert_one in place of the upsert: no row is ever found.
never_found(rows, norm) == {}

\* The filter of find_one_and_update in upsert_make: {"norm": norm}.
find_make(rows, norm) == {r \in rows : r.norm = norm}

\* The filter in upsert_series: {"make_id": make_id, "norm": norm}.
find_series(rows, make_id, norm) ==
    {r \in rows : r.make_id = make_id /\ r.norm = norm}

\* The filter in upsert_model: {"make_id", "series_id", "norm"}; a
\* series_id of None matches the rows whose series_id is null.
\* A lookup of models that finds no row.
model_never_found(rows, make_id, series_id, norm) == {}

find_model(rows, make_id, series_id, norm) ==
    {r \in rows : r.make_id = make_id /\ r.series_id = series_id /\ r.norm = norm}

\* find_one_and_update(filter, {"$set": {"name_et": name}}, upsert=True,
\* return_document=AFTER) on one collection: the row found gets the new
\* name_et, else "fresh" is inserted under the next id.  The result is the
\* database and the _id of the row.
Upserted(db, coll, found, fresh, name) ==
    IF found # {}
    THEN LET row == CHOOSE r \in found : TRUE
         IN [db |-> [db EXCEPT ![coll] = (@ \ {row}) \cup {[row EXCEPT !.name_et = name]}],
             id |-> row.id]
    ELSE [db |-> [db EXCEPT ![coll] = @ \cup {fresh}, !.nextId = @ + 1],
          id |-> db.nextId]

\* ScraperRepository.upsert_make(name_et)
upsert_make(db, name_et) ==
    LET name == clean_label(name_et)
        norm == norm_label(name)
    IN Upserted(db, "makes", find_make(db.makes, norm),
                [id |-> db.nextId, norm |-> norm, name_et |-> name], name)

\* ScraperRepository.upsert_series(make_id, name_et)
upsert_series(db, make_id, name_et) ==
    LET name == clean_label(name_et)
        norm == norm_label(name)
    IN Upserted(db, "series", find_series(db.series, make_id, norm),
                [id |-> db.nextId, make_id |-> make_id, norm |-> norm,
                 name_et |-> name], name)

\* ScraperRepository.upsert_model(make_id, name_et, series_id)
upsert_model(db, make_id, name_et, series_id) ==
    LET name == clean_label(name_et)
        norm == norm_label(name)
    IN Upserted(db, "models", find_model(db.models, make_id, series_id, norm),
                [id |-> db.nextId, make_id |-> make_id, series_id |-> series_id,
                 norm |-> norm, name_et |-> name], name)

\* insert_one in place of the upsert of a mapping.
no_mapping_found(rows, filt) == {}

\* mappings.find(filt) for a filter of equalities: the rows that have the
\* value of the filter in every field the filter names.
find_mapping(rows, filt) == {r \in rows : \A f \in DOMAIN filt : r[f] = filt[f]}

\* ScraperRepository.upsert_mapping: the mapping found by the filter, of
\* which source_key is no part, gets the label, the canonical id and the
\* source key of this call, else a mapping is inserted.
upsert_mapping(db, source_site, entity_type, source_label, canonical_id, make_canonical_id, series_canonical_id, source_key) ==
    LET label == clean_label(source_label)
        src_norm == norm_label(label)
        filt == [source_site |-> source_site,
                 entity_type |-> entity_type,
                 make_canonical_id |-> make_canonical_id,
                 series_canonical_id |-> series_canonical_id,
                 source_norm |-> src_norm]
        found == find_mapping(db.mappings, filt)
    IN IF found # {}
       THEN LET row == CHOOSE r \in found : TRUE
            IN [db EXCEPT !.mappings =
                   (@ \ {row}) \cup {[row EXCEPT !.source_label = label,
                                                 !.source_norm = src_norm,
                                                 !.canonical_id = canonical_id,
                                                 !.source_key = source_key]}]
       ELSE [db EXCEPT !.mappings = @ \cup
                   {[id |-> db.nextId,
                     source_site |-> source_site,
                     entity_type |-> entity_type,
                     make_canonical_id |-> make_canonical_id,
                     series_canonical_id |-> series_canonical_id,
                     source_norm |-> src_norm,
                     source_label |-> label,
                     canonical_id |-> canonical_id,
                     source_key |-> source_key]},
                        !.nextId = @ + 1]

\* The callers' view: the collections after a repository call.
Stored(db) ==
    /\ makes' = db.makes
    /\ series' = db.series
    /\ models' = db.models
    /\ mappings' = db.mappings
    /\ nextId' = db.nextId

\* Labels given to the catalog: two spellings of "2 seeria", two of
\* "seeria", and the pair "2.." / "2".
CatalogLabels == {<<"2", ".", " ", "seeria">>, <<"2", " ", " ", "seeria">>,
                  <<"Seeria">>, <<"seeria", "(kõik)">>,
                  <<"2", ".", ".">>, <<"2">>}

Call(fn, make_id, series_id, label, id, before, after) ==
    [fn |-> fn, make_id |-> make_id, series_id |-> series_id, label |-> label,
     id |-> id, added |-> Cardinality(after) - Cardinality(before)]

\* A caller upserts a make.
UpsertMake(label) ==
    /\ Len(calls) < MaxCalls
    /\ LET r == upsert_make(DB, label)
       IN /\ Stored(r.db)
          /\ calls' = Append(calls, Call("make", NoId, NoId, label, r.id,
                                         makes, r.db.makes))
    /\ UNCHANGED <<extractor, seedRuns, firstSeed, seeded, veego, resolveVars,
                   storeVars, runVars, crawlVars, fetchVars, labelVars>>

\* A caller upserts a series of a make it holds the id of.
UpsertSeries(make_id, label) ==
    /\ Len(calls) < MaxCalls
    /\ LET r == upsert_series(DB, make_id, label)
       IN /\ Stored(r.db)
          /\ calls' = Append(calls, Call("series", make_id, NoId, label, r.id,
                                         series, r.db.series))
    /\ UNCHANGED <<extractor, seedRuns, firstSeed, seeded, veego, resolveVars,
                   storeVars, runVars, crawlVars, fetchVars, labelVars>>

\* A caller upserts a model of a make, in a series of the make or in none.
UpsertModel(make_id, series_id, label) ==
    /\ Len(calls) < MaxCalls
    /\ LET r == upsert_model(DB, make_id, label, series_id)
       IN /\ Stored(r.db)
          /\ calls' = Append(calls, Call("model", make_id, series_id, label, r.id,
                                         models, r.db.models))
    /\ UNCHANGED <<extractor, seedRuns, firstSeed, seeded, veego, resolveVars,
                   storeVars, runVars, crawlVars, fetchVars, labelVars>>

\* ------------------------------------------------------------------ seeding
\* The tree extractor.iter_makes() yields, written as its nodes in the
\* order the loops of seed_source_taxonomy visit them: a make, the models
\* directly under it, then each of its series followed by the models of
\* the series.  A node is its level, its label and its native id.
Levels == {"make", "series", "model"}

\* Two labels of one norm, a label clean_label leaves as it is, and a
\* label that clean_label changes again when applied to its own result.
SeedLabels ==
    {<<"2", ".", " ", "seeria">>, <<"2", " ", " ", "seeria">>, <<"Seeria">>,
     <<"2", ".", ".">>}

\* The native ids of the source are the numbers 1, 2, ...; node i of the
\* tree has the native id i.  str() of a native id:
Keys == <<"1", "2", "3", "4", "5">>

str(n) == Keys[n]

NodeShapes == [level : Levels, label : SeedLabels]

Trees ==
    UNION {{t \in [1..n -> NodeShapes] : t[1].level = "make"} : n \in 1..MaxNodes}

\* 'str(m.source_make_id) if m.source_make_id is not None else None'
SourceKey(i) == str(i)

NoExtractor == [source_site |-> None, nodes |-> <<>>]

\* One step of the walk: the node is upserted into the catalog under the
\* make and series the walk is in, and its mapping is upserted.  "w" is
\* the state of the walk: the database, the ids of the make and series
\* being walked, and what was upserted per node.
SeedNode(w, source_site, i, node) ==
    IF node.level = "make"
    THEN LET make_label == clean_label(node.label)
             r == upsert_make(w.db, make_label)
         IN [db |-> upsert_mapping(r.db, source_site, "make", node.label, r.id,
                                   NoId, NoId, SourceKey(i)),
             make_id |-> r.id,
             series_id |-> NoId,
             seeded |-> Append(w.seeded, [entity_type |-> "make", canonical_id |-> r.id,
                                          make_canonical_id |-> NoId,
                                          series_canonical_id |-> NoId])]
    ELSE IF node.level = "series"
    THEN LET series_label == clean_label(node.label)
             r == upsert_series(w.db, w.make_id, series_label)
         IN [db |-> upsert_mapping(r.db, source_site, "series", node.label, r.id,
                                   w.make_id, NoId, SourceKey(i)),
             make_id |-> w.make_id,
             series_id |-> r.id,
             seeded |-> Append(w.seeded, [entity_type |-> "series", canonical_id |-> r.id,
                                          make_canonical_id |-> w.make_id,
                                          series_canonical_id |-> NoId])]
    ELSE LET model_label == clean_label(node.label)
             r == upsert_model(w.db, w.make_id, model_label, w.series_id)
         IN [db |-> upsert_mapping(r.db, source_site, "model", node.label, r.id,
                                   w.make_id, w.series_id, SourceKey(i)),
             make_id |-> w.make_id,
             series_id |-> w.series_id,
             seeded |-> Append(w.seeded, [entity_type |-> "model", canonical_id |-> r.id,
                                          make_canonical_id |-> w.make_id,
                                          series_canonical_id |-> w.series_id])]

RECURSIVE Walk(_, _, _, _)
Walk(w, source_site, nodes, i) ==
    IF i > Len(nodes) THEN w
    ELSE Walk(SeedNode(w, source_site, i, nodes[i]), source_site, nodes, i + 1)

Collections(db) == [makes |-> db.makes, series |-> db.series,
                    models |-> db.models, mappings |-> db.mappings]

\* seed_source_taxonomy(repo, extractor): the whole walk.
seed_source_taxonomy ==
    /\ extractor # NoExtractor
    /\ seedRuns < MaxSeedRuns
    /\ LET w == Walk([db |-> DB, make_id |-> NoId, series_id |-> NoId, seeded |-> <<>>],
                     extractor.source_site, extractor.nodes, 1)
       IN /\ Stored(w.db)
          /\ seeded' = w.seeded
          /\ firstSeed' = IF seedRuns = 0 THEN Collections(w.db) ELSE firstSeed
    /\ seedRuns' = seedRuns + 1
    /\ UNCHANGED <<calls, extractor, veego, resolveVars,
                   storeVars, runVars, crawlVars, fetchVars, labelVars>>

\* run_all_seeders: the sites are seeded one after the other, each from
\* its own extractor; a site whose seeding failed is seeded by a later run.
\* A site that has mappings has been seeded.
SeedSite(e) ==
    /\ seedRuns < MaxSeedRuns
    /\ \A r \in mappings : r.source_site # e.source_site
    /\ extractor' = e
    /\ LET w == Walk([db |-> DB, make_id |-> NoId, series_id |-> NoId, seeded |-> <<>>],
                     e.source_site, e.nodes, 1)
       IN /\ Stored(w.db)
          /\ seeded' = w.seeded
          /\ firstSeed' = IF seedRuns = 0 THEN Collections(w.db) ELSE firstSeed
    /\ seedRuns' = seedRuns + 1
    /\ UNCHANGED <<calls, veego, resolveVars,
                   storeVars, runVars, crawlVars, fetchVars, labelVars>>

\* The sites seeded in SpecSites and how each spells its one label.
SeededSites == {"autodiiler", "veego"}

SiteSpelling(site) == IF site = "autodiiler" THEN <<"Seeria">> ELSE <<"seeria">>

\* The trees of a site: one make, and series and models under it.
SiteTrees(site) ==
    UNION {{t \in [1..n -> [level : Levels, label : {SiteSpelling(site)}]] :
               \A i \in 1..n : (t[i].level = "make") <=> (i = 1)} :
           n \in 1..MaxSiteNodes}

Extractors == UNION {[source_site : {site}, nodes : SiteTrees(site)] : site \in SeededSites}

\* ------------------------------------------------------- VeegoExtractor
\* What the makes API answers: the request fails (raise_for_status), the
\* body is not JSON, the JSON is not a list, or it is a list of make
\* objects, each a dict with an id and a name.
MakeObjects == [type : {"dict"}, id : 1..2, name : {"Audi", "BMW"}]

ApiResponses ==
    {[kind |-> k, body |-> <<>>] : k \in {"http_error", "bad_json", "not_list"}}
    \cup UNION {[kind : {"list"}, body : [1..n -> MakeObjects]] : n \in 0..MaxApiMakes}

\* '(str(make.get("id")), make.get("name", ""))'
Pair(make) == [type |-> "tuple", id |-> str(make.id), name |-> make.name]

\* A tuple has no .get: make.get raises AttributeError.
HasGet(x) == x.type = "dict"

NoFetch == [pc |-> "idle", response |-> [kind |-> "none", body |-> <<>>],
            makes |-> <<>>, pos |-> 0, returned |-> <<>>, yielded |-> <<>>]

\* _fetch_makes up to its loop: 'makes = response.json()'; every failure
\* and a body that is no list return [].
FetchMakes(response) ==
    /\ veego.pc = "idle"
    /\ veego' = IF response.kind = "list"
                THEN [veego EXCEPT !.pc = "loop", !.response = response,
                                   !.makes = response.body, !.pos = 1]
                ELSE [veego EXCEPT !.pc = "returned", !.response = response,
                                   !.returned = <<>>]
    /\ UNCHANGED <<makes, series, models, mappings, nextId, calls, extractor, seedRuns,
                   firstSeed, seeded, resolveVars,
                   storeVars, runVars, crawlVars, fetchVars, labelVars>>

\* One turn of 'for make in makes: makes.append(...)': the list iterator
\* goes on while its index is below the length the list has now, and the
\* loop appends to the list it iterates; 'except Exception: return []'.
MakesLoop ==
    /\ veego.pc = "loop"
    /\ veego' = IF veego.pos > Len(veego.makes)
                THEN [veego EXCEPT !.pc = "returned", !.returned = veego.makes]
                ELSE IF HasGet(veego.makes[veego.pos])
                THEN [veego EXCEPT !.makes = Append(@, Pair(veego.makes[veego.pos])),
                                   !.pos = @ + 1]
                ELSE [veego EXCEPT !.pc = "returned", !.returned = <<>>]
    /\ UNCHANGED <<makes, series, models, mappings, nextId, calls, extractor, seedRuns,
                   firstSeed, seeded, resolveVars,
                   storeVars, runVars, crawlVars, fetchVars, labelVars>>

\* iter_makes: one SourceMake per element of what _fetch_makes returned
\* (_fetch_make_tree returns no node).
iter_makes ==
    /\ veego.pc = "returned"
    /\ veego' = [veego EXCEPT !.pc = "done",
                    !.yielded = [i \in 1..Len(veego.returned) |->
                                    [source_make_id |-> veego.returned[i].id,
                                     label |-> veego.returned[i].name]]]
    /\ UNCHANGED <<makes, series, models, mappings, nextId, calls, extractor, seedRuns,
                   firstSeed, seeded, resolveVars,
                   storeVars, runVars, crawlVars, fetchVars, labelVars>>

\* ----------------------------------------------------------------- resolver
\* Python's None where a string is expected is the string None of the
\* vocabulary; find_one returns one of the documents that match, and the
\* lookups below are the set of documents it can return.

\* The text lookup without the site: the mappings of every site match.
find_text_any_site(rows, source_site, entity_type, source_label, make_canonical_id, series_canonical_id) ==
    find_mapping(rows, [entity_type |-> entity_type,
                        make_canonical_id |-> make_canonical_id,
                        series_canonical_id |-> series_canonical_id,
                        source_norm |-> norm_label(source_label)])

\* _find_mapping_by_text(repo, source_site, entity_type, source_label,
\*                       make_canonical_id, series_canonical_id)
find_mapping_by_text(rows, source_site, entity_type, source_label, make_canonical_id, series_canonical_id) ==
    find_mapping(rows, [source_site |-> source_site,
                        entity_type |-> entity_type,
                        make_canonical_id |-> make_canonical_id,
                        series_canonical_id |-> series_canonical_id,
                        source_norm |-> norm_label(source_label)])

\* _find_mapping_by_key(repo, source_site, entity_type, source_key,
\*                      make_canonical_id)
find_mapping_by_key(rows, source_site, entity_type, source_key, make_canonical_id) ==
    find_mapping(rows, [source_site |-> source_site,
                        entity_type |-> entity_type,
                        make_canonical_id |-> make_canonical_id,
                        source_key |-> source_key])

\* The text mapping preferred to the mapping of the native id.
TextFirst(by_key, by_text) == IF by_text # {} THEN by_text ELSE by_key

\* The mapping the lookups of one level end with: the mapping found by the
\* native id if there is one, else the mapping found by the label.
KeyFirst(by_key, by_text) == IF by_key # {} THEN by_key ELSE by_text

\* 'x_map = None
\*  if src_id is not None: x_map = _find_mapping_by_key(...)
\*  if x_map is None [and label]: x_map = _find_mapping_by_text(...)
\*  x_id = x_map["canonical_id"] if x_map else None'
\* src_id is the native id of the listing, 0 for None.
Lookup(rows, source_site, entity_type, src_id, label, with_text, make_canonical_id, series_canonical_id) ==
    LET by_key == IF src_id # 0
                  THEN find_mapping_by_key(rows, source_site, entity_type,
                                           str(src_id), make_canonical_id)
                  ELSE {}
        by_text == IF with_text
                   THEN find_mapping_by_text(rows, source_site, entity_type, label,
                                             make_canonical_id, series_canonical_id)
                   ELSE {}
        found == KeyFirst(by_key, by_text)
    IN IF found = {} THEN {NoId} ELSE {r.canonical_id : r \in found}

\* The model looked up without the series.
no_series_anchor(series_id) == NoId

\* 'series_canonical_id=series_id,  # important context'
model_series_anchor(series_id) == series_id

Unresolved == [make_id |-> NoId, series_id |-> NoId, model_id |-> NoId]

\* resolve_one_listing(repo, listing): the results it can return.  A label
\* that is None or empty is the empty sequence.
resolve_one_listing(rows, listing) ==
    LET source_site == listing.source_site
        src == listing.source_taxonomy
        MakeIds == Lookup(rows, source_site, "make", src.make_id, listing.make,
                          TRUE, NoId, NoId)
        SeriesIds(make_id) ==
            IF make_id # NoId /\ (listing.series # <<>> \/ src.series_id # 0)
            THEN Lookup(rows, source_site, "series", src.series_id, listing.series,
                        listing.series # <<>>, make_id, NoId)
            ELSE {NoId}
        ModelIds(make_id, series_id) ==
            IF make_id # NoId
            THEN Lookup(rows, source_site, "model", src.model_id, listing.model,
                        TRUE, make_id, model_series_anchor(series_id))
            ELSE {NoId}
    IN IF source_site = None \/ listing.make = <<>> \/ listing.model = <<>>
       THEN {Unresolved}
       ELSE UNION {UNION {{[make_id |-> m, series_id |-> s, model_id |-> md] :
                              md \in ModelIds(m, s)} :
                          s \in SeriesIds(m)} :
                   m \in MakeIds}

\* The labels of the trees seeded before a listing is resolved: one that
\* clean_label leaves as it is and one that it rewrites.  A listing has
\* one of them, or nothing, as its make, series and model.
ResolveLabels == {<<"Seeria">>, <<"2", ".", " ", "seeria">>}

ListingLabels == ResolveLabels \cup {<<>>}

\* The trees seeded before listings are resolved.
ResolveTrees == {t \in Trees : \A i \in 1..Len(t) : t[i].label \in ResolveLabels}

\* The source_taxonomy of a listing: native ids up to n, None (0) where the
\* listing has none; the ids of the make, series and model of one listing
\* differ.
SourceTaxonomies(n) ==
    {st \in [make_id : 0..n, series_id : 0..n, model_id : 0..n] :
        /\ st.make_id # 0 => st.make_id # st.series_id /\ st.make_id # st.model_id
        /\ st.series_id # 0 => st.series_id # st.model_id}

\* The fields of a listing resolve_one_listing reads.
Listings(n) ==
    [source_site : {"veego"}, make : ListingLabels, series : ListingLabels,
     model : ListingLabels, source_taxonomy : SourceTaxonomies(n)]

\* No listing was given to resolve_one_listing yet.
NoResolution == [pc |-> "idle"]

\* A listing is resolved.
ResolveOne(listing) ==
    /\ resolution = NoResolution
    /\ \E ids \in resolve_one_listing(mappings, listing) :
          resolution' = [pc |-> "done", listing |-> listing, ids |-> ids]
    /\ UNCHANGED <<car_listings, passes, taxVars,
                   storeVars, runVars, crawlVars, fetchVars, labelVars>>

\* A canonical id field a listing document does not have ($exists: false).
Missing == 0 - 1

\* A listing as a scraper saved it: none of make_id, series_id, model_id.
Scraped(listing, id) ==
    [id |-> id,
     source_site |-> listing.source_site,
     make |-> listing.make,
     series |-> listing.series,
     model |-> listing.model,
     source_taxonomy |-> listing.source_taxonomy,
     make_id |-> Missing,
     series_id |-> Missing,
     model_id |-> Missing]

\* A scraper saves a listing that was not in the collection.
InsertListing(listing) ==
    /\ Cardinality(car_listings) < MaxListings
    /\ car_listings' = car_listings \cup {Scraped(listing, Cardinality(car_listings) + 1)}
    /\ UNCHANGED <<resolution, passes, taxVars,
                   storeVars, runVars, crawlVars, fetchVars, labelVars>>

\* An upsert that replaces the stored document by the payload.
replace_document(d, item) == Scraped(item, d.id)

\* The upsert of save_listings on a stored listing: '"$set": update_set',
\* update_set being the keys of the payload (the scrapers' payloads have
\* the raw texts and source_taxonomy, never make_id, series_id or model_id).
update_set(d, item) ==
    [d EXCEPT !.source_site = item.source_site,
              !.make = item.make,
              !.series = item.series,
              !.model = item.model,
              !.source_taxonomy = item.source_taxonomy]

\* A later crawl saves the listing of a stored source_url again.
Recrawl(d, item) ==
    /\ d \in car_listings
    /\ car_listings' = (car_listings \ {d}) \cup {update_set(d, item)}
    /\ UNCHANGED <<resolution, passes, taxVars,
                   storeVars, runVars, crawlVars, fetchVars, labelVars>>

\* A query that selects no listing.
nothing_selected(docs) == {}

\* 'query = {"$or": [{"make_id": {"$exists": False}},
\*                   {"model_id": {"$exists": False}}]}'
unresolved_query(docs) == {d \in docs : d.make_id = Missing \/ d.model_id = Missing}

\* 'if limit and limit > 0: cursor = cursor.limit(limit)': the sets of
\* documents the cursor can stream.
Cursor(docs, limit) ==
    IF limit > 0
    THEN {v \in SUBSET docs : Cardinality(v) = Min(limit, Cardinality(docs))}
    ELSE {docs}

\* Only the make has to be resolved for the ids to be written.
make_resolved(ids) == ids.make_id # NoId

\* 'if ids["make_id"] and ids["model_id"]'
both_resolved(ids) == ids.make_id # NoId /\ ids.model_id # NoId

\* What resolve_one_listing can return for each of the documents.
Resolutions(docs) ==
    {ch \in [{d.id : d \in docs} ->
                UNION {resolve_one_listing(mappings, d) : d \in docs}] :
        \A d \in docs : ch[d.id] \in resolve_one_listing(mappings, d)}

\* update_one({"_id": ...}, {"$set": {"make_id", "series_id", "model_id"}})
update_ids(d, ids) ==
    [d EXCEPT !.make_id = ids.make_id,
              !.series_id = ids.series_id,
              !.model_id = ids.model_id]

\* resolve_all_unresolved(repo, limit=limit): one pass over the cursor.
resolve_all_unresolved(limit) ==
    /\ Len(passes) < MaxPasses
    /\ \E visited \in Cursor(unresolved_query(car_listings), limit) :
          \E ch \in Resolutions(visited) :
             LET updated == {d \in visited : both_resolved(ch[d.id])}
             IN /\ car_listings' = (car_listings \ updated)
                                      \cup {update_ids(d, ch[d.id]) : d \in updated}
                /\ passes' = Append(passes,
                                    [updated |-> Cardinality(updated),
                                     skipped |-> Cardinality(visited \ updated),
                                     visited |-> Cardinality(visited)])
    /\ UNCHANGED <<resolution, taxVars,
                   storeVars, runVars, crawlVars, fetchVars, labelVars>>

\* The listings of the seeded sites without native ids: the make in the
\* site's spelling, the series in it or absent, the model in it or a model
\* no site lists.
SiteListings ==
    UNION {[source_site : {site},
            make : {SiteSpelling(site)},
            series : {SiteSpelling(site), <<>>},
            model : {SiteSpelling(site), <<"2">>},
            source_taxonomy : SourceTaxonomies(0)] : site \in SeededSites}

CatalogIdle ==
    /\ makes = {} /\ series = {} /\ models = {} /\ mappings = {}
    /\ nextId = 1
    /\ calls = <<>>
    /\ seedRuns = 0
    /\ firstSeed = Collections(EmptyDB)
    /\ seeded = <<>>
    /\ veego = NoFetch

ResolveIdle == car_listings = {} /\ resolution = NoResolution /\ passes = <<>>

TaxIdle == CatalogIdle /\ extractor = NoExtractor /\ ResolveIdle

AuxIdle == FetchIdle /\ LabelIdle /\ TaxIdle

\* ---------------------------------------------------------- orchestrator
\* The scraper classes of get_active_scrapers(), by __name__.
ClassNames == <<"AutoDiilerScraper", "Auto24Scraper", "VeegoScraper">>

\* main(): resolve_all_unresolved(repository, limit=0)
ResolveLimit == 0

\* asyncio.gather(*tasks, return_exceptions=True)
raise_first_exception == FALSE

return_exceptions == TRUE

\* The try block of run_single_scraper covers the crawl, the closing of the
\* scraper, the save and the stale deletion; the construction of the
\* scraper and the read of its site_name come before it.
\* gather resolves when every awaitable has finished
AnyTaskDone == \E a \in Adapters : apc[a] = "done"

AllTasksDone == \A a \in Adapters : apc[a] = "done"

InTry(stage) == stage \in {"crawl", "close", "save", "delete"}

\* "if listings:" in run_single_scraper
AnyCrawl(found) == TRUE

HasListings(found) == found # <<>>

NoResult == [kind |-> "none", site |-> None, saved |-> 0, updated |-> 0,
             errors |-> 0, deleted |-> 0]

\* return {"site": site_name, **result, "deleted": deleted, "elapsed": elapsed}
OkResult(a, saved, updated, errors, deleted) ==
    [kind |-> "ok", site |-> site_name(a), saved |-> saved, updated |-> updated,
     errors |-> errors, deleted |-> deleted]

\* the zero-result dict of the else branch
ZeroResult(a) ==
    [kind |-> "zero", site |-> site_name(a), saved |-> 0, updated |-> 0,
     errors |-> 0, deleted |-> 0]

\* the except branch: {"site": site_name, "saved": 0, ..., "error": str(e)}
ErrorResult(a) ==
    [kind |-> "error", site |-> site_name(a), saved |-> 0, updated |-> 0,
     errors |-> 0, deleted |-> 0]

\* an exception that left the task: gather hands it back as the result
RaisedResult(a) ==
    [kind |-> "raised", site |-> None, saved |-> 0, updated |-> 0,
     errors |-> 0, deleted |-> 0]

\* run_all_scrapers_async: {"site": scraper_classes[i].__name__, "error": ...}
ExceptionResult(a) ==
    [kind |-> "exception", site |-> ClassNames[a], saved |-> 0, updated |-> 0,
     errors |-> 0, deleted |-> 0]

\* What an exception raised at a stage of run_single_scraper becomes.
TaskOutcome(a, stage) == IF InTry(stage) THEN ErrorResult(a) ELSE RaisedResult(a)

\* What scrape_all of adapter a can return: listings tagged with the
\* adapter's site_name (_fetch_and_parse_listing), at most MaxItems of them.
CrawlItems(a) == {i \in Items : /\ i.source_url # None
                                 /\ i.source_site = site_name(a)
                                 /\ i.data \in 1..NumCrawlData}
CrawlLists(a) == UNION {[1..n -> CrawlItems(a)] : n \in 0..MaxItems}

NoCrawl == [raised |-> FALSE, listings |-> <<>>]
NoDid == [saved |-> <<>>, deleted |-> FALSE]

Event(op, a, rid) == [op |-> op, adapter |-> a, site |-> site_name(a), run_id |-> rid]

InitRunVars ==
    /\ run = 0
    /\ mainPc = "idle"
    /\ apc = [a \in Adapters |-> "idle"]
    /\ crawl = [a \in Adapters |-> NoCrawl]
    /\ out = [a \in Adapters |-> NoResult]
    /\ results = <<>>
    /\ escaped = FALSE
    /\ resolveCalls = <<>>
    /\ log = <<>>
    /\ did = [a \in Adapters |-> NoDid]
    /\ preRun = EmptyBag

\* main(): a fresh run_id, then asyncio.run(run_all_scrapers_async(...)),
\* which creates one task per scraper class.
MainStart ==
    /\ mainPc = "idle"
    /\ run < MaxRuns
    /\ ~escaped
    /\ run' = run + 1
    /\ mainPc' = "gather"
    /\ apc' = [a \in Adapters |-> "created"]
    /\ crawl' = [a \in Adapters |-> NoCrawl]
    /\ out' = [a \in Adapters |-> NoResult]
    /\ results' = <<>>
    /\ resolveCalls' = <<>>
    /\ log' = <<>>
    /\ did' = [a \in Adapters |-> NoDid]
    /\ preRun' = listings
    /\ UNCHANGED <<escaped, storeVars, crawlVars, auxVars>>

\* run_single_scraper up to its first await: the scraper is constructed
\* (which may raise), then scrape_all is awaited.
TaskStart(a, raises) ==
    /\ mainPc = "gather"
    /\ apc[a] = "created"
    /\ IF raises
       THEN /\ apc' = [apc EXCEPT ![a] = "done"]
            /\ out' = [out EXCEPT ![a] = TaskOutcome(a, "construct")]
       ELSE /\ apc' = [apc EXCEPT ![a] = "crawling"]
            /\ UNCHANGED out
    /\ UNCHANGED <<run, mainPc, crawl, results, escaped, resolveCalls, log, did, preRun, storeVars, crawlVars, auxVars>>

\* scrape_all returns its listings or raises; the async with block then
\* awaits scraper.close().
CrawlDone(a, raised, found) ==
    /\ mainPc = "gather"
    /\ apc[a] = "crawling"
    /\ crawl' = [crawl EXCEPT ![a] = [raised |-> raised,
                                       listings |-> IF raised THEN <<>> ELSE found]]
    /\ apc' = [apc EXCEPT ![a] = "closing"]
    /\ UNCHANGED <<run, mainPc, out, results, escaped, resolveCalls, log, did, preRun, storeVars, crawlVars, auxVars>>

\* The rest of run_single_scraper, which has no await: close() has returned
\* or raised; "if listings:" save_listings then delete_stale_listings.  The
\* save performs the first n requests of the order the server took and
\* raises when n is short of all of them; the deletion raises or deletes.
TaskFinish(a, closeRaises, order, n, deleteRaises) ==
    LET rid == RunNames[run]
        found == crawl[a].listings
        ops == SelectValid(found)
        stored == ApplyOps(listings, ops, order, n, rid)
        saved == CountInserts(listings, ops, order, n, rid)
        applied == [i \in 1..n |-> ops[order[i]]]
    IN  /\ mainPc = "gather"
        /\ apc[a] = "closing"
        /\ order \in Orders(Len(ops))
        /\ n \in 0..Len(ops)
        /\ apc' = [apc EXCEPT ![a] = "done"]
        /\ IF crawl[a].raised
           THEN /\ out' = [out EXCEPT ![a] = TaskOutcome(a, "crawl")]
                /\ UNCHANGED <<listings, log, did>>
           ELSE IF closeRaises
           THEN /\ out' = [out EXCEPT ![a] = TaskOutcome(a, "close")]
                /\ UNCHANGED <<listings, log, did>>
           ELSE IF ~HasListings(found)
           THEN /\ out' = [out EXCEPT ![a] = ZeroResult(a)]
                /\ UNCHANGED <<listings, log, did>>
           ELSE IF n < Len(ops)
           THEN /\ out' = [out EXCEPT ![a] = TaskOutcome(a, "save")]
                /\ listings' = stored
                /\ log' = Append(log, Event("save_listings", a, rid))
                /\ did' = [did EXCEPT ![a] = [saved |-> applied, deleted |-> FALSE]]
           ELSE IF deleteRaises
           THEN /\ out' = [out EXCEPT ![a] = TaskOutcome(a, "delete")]
                /\ listings' = stored
                /\ log' = log \o <<Event("save_listings", a, rid),
                                    Event("delete_stale_listings", a, rid)>>
                /\ did' = [did EXCEPT ![a] = [saved |-> applied, deleted |-> FALSE]]
           ELSE /\ out' = [out EXCEPT ![a] =
                        OkResult(a, saved, Len(ops) - saved, Len(found) - Len(ops),
                                 BagCardinality(stored)
                                 - BagCardinality(delete_many_stale(stored, site_name(a), rid)))]
                /\ listings' = delete_many_stale(stored, site_name(a), rid)
                /\ log' = log \o <<Event("save_listings", a, rid),
                                    Event("delete_stale_listings", a, rid)>>
                /\ did' = [did EXCEPT ![a] = [saved |-> applied, deleted |-> TRUE]]
        /\ UNCHANGED <<run, mainPc, crawl, results, escaped, resolveCalls, preRun,
                       ret, lastUpsert, nSaves, crawlVars, auxVars>>

\* gather returns once every task is done; run_all_scrapers_async turns a
\* returned exception into an entry; main() then calls
\* resolve_all_unresolved(limit=0) and prints the summary.
MainFinish ==
    /\ mainPc = "gather"
    /\ AllTasksDone
    /\ mainPc' = "idle"
    /\ IF ~return_exceptions /\ \E a \in Adapters : out[a].kind = "raised"
       THEN /\ escaped' = TRUE
            /\ UNCHANGED <<results, resolveCalls>>
       ELSE /\ results' = [a \in Adapters |->
                              IF out[a].kind = "raised" THEN ExceptionResult(a) ELSE out[a]]
            /\ resolveCalls' = Append(resolveCalls, ResolveLimit)
            /\ UNCHANGED escaped
    /\ UNCHANGED <<run, apc, crawl, out, log, did, preRun, storeVars, crawlVars, auxVars>>

InitRun ==
    /\ listings = EmptyBag
    /\ ret = [op |-> "none"]
    /\ lastUpsert = {}
    /\ nSaves = 0
    /\ InitRunVars
    /\ CrawlIdle(1)
    /\ AuxIdle

NextRun ==
    \/ MainStart
    \/ \E a \in Adapters, raises \in BOOLEAN : TaskStart(a, raises)
    \/ \E a \in Adapters, raised \in BOOLEAN :
           \E found \in CrawlLists(a) : CrawlDone(a, raised, found)
    \/ \E a \in Adapters, closeRaises \in BOOLEAN, deleteRaises \in BOOLEAN :
           \E order \in Orders(Len(SelectValid(crawl[a].listings))) :
               \E n \in 0..Len(SelectValid(crawl[a].listings)) :
                   TaskFinish(a, closeRaises, order, n, deleteRaises)
    \/ MainFinish

SpecRun == InitRun /\ [][NextRun]_vars

\* ------------------------------------------------------------ SpecCrawl
InitCrawl ==
    /\ listings = EmptyBag
    /\ ret = [op |-> "none"]
    /\ lastUpsert = {}
    /\ nSaves = 0
    /\ InitRunVars
    /\ \E c \in Crawlers : CrawlIdle(c)
    /\ AuxIdle

NextCrawl ==
    \/ Begin
    \/ \E ok \in BOOLEAN : TranslatorDone(ok)
    \/ \E m \in 0..MaxMakes : MakesDone(m)
    \/ \E i \in 1..MaxMakes, found \in 0..1 : ModelDone(i, found)
    \/ ModelsJoin
    \/ \E i \in 1..batch_size, found \in 0..MaxLocators :
           \E again \in Again : MsmTaskDone(i, found, again)
    \/ MsmJoin
    \/ MsmSleepDone
    \/ \E more \in BOOLEAN, found \in 0..MaxLocators : PageDone(more, found)
    \/ PageSleepDone
    \/ \E i \in 1..MaxLocators, outcome \in Outcomes : ListingDone(i, outcome)
    \/ BatchJoin
    \/ SleepDone

SpecCrawl == InitCrawl /\ [][NextCrawl]_vars

\* ------------------------------------------------------------ SpecVeego
\* VeegoExtractor.iter_makes on one answer of the makes API.
InitVeego ==
    /\ listings = EmptyBag
    /\ ret = [op |-> "none"]
    /\ lastUpsert = {}
    /\ nSaves = 0
    /\ InitRunVars
    /\ CrawlIdle(1)
    /\ AuxIdle

NextVeego ==
    \/ \E response \in ApiResponses : FetchMakes(response)
    \/ MakesLoop
    \/ iter_makes

SpecVeego == InitVeego /\ [][NextVeego]_vars

\* ----------------------------------------------------------- SpecScrape
\* run_single_scraper of one adapter: the store holds listings of its site
\* that an earlier run saw, scrape_all runs, and "if listings:" the
\* listings are saved and the stale ones deleted under this run's run_id.
EarlierRun == RunNames[1]

ThisRun == RunNames[2]

Seen(url, site) ==
    [source_url |-> url, source_site |-> site, data |-> 1,
     last_seen_run_id |-> EarlierRun]

\* 'result = repository.save_listings(listings, run_id=run_id)'
SaveScraped(order) ==
    /\ cpc = "done"
    /\ ret.op = "none"
    /\ HasListings(all_listings)
    /\ save_listings(all_listings, ThisRun, order)

\* 'deleted = repository.delete_stale_listings(source_site=site_name, run_id=run_id)'
DeleteAfterSave ==
    /\ ret.op = "save_listings"
    /\ delete_stale_listings(site_name(crawler), ThisRun)

InitScrape ==
    /\ \E c \in Crawlers :
          /\ CrawlIdle(c)
          /\ \E us \in SUBSET Urls : listings = SetToBag({Seen(u, site_name(c)) : u \in us})
    /\ ret = [op |-> "none"]
    /\ lastUpsert = {}
    /\ nSaves = 0
    /\ InitRunVars
    /\ AuxIdle

NextScrape ==
    \/ NextCrawl
    \/ \E order \in Orders(Len(all_listings)) : SaveScraped(order)
    \/ DeleteAfterSave

SpecScrape == InitScrape /\ [][NextScrape]_vars

\* ------------------------------------------------------------ SpecFetch
InitFetch ==
    /\ listings = EmptyBag
    /\ ret = [op |-> "none"]
    /\ lastUpsert = {}
    /\ nSaves = 0
    /\ InitRunVars
    /\ CrawlIdle(1)
    /\ TaxIdle
    /\ FetchIdle
    /\ LabelIdle

NextFetch ==
    \/ FetchStart
    \/ \E resp \in Responses : Respond(resp)
    \/ Wake

SpecFetch == InitFetch /\ [][NextFetch]_vars

\* ------------------------------------------------------------ SpecLabel
InitLabel ==
    /\ listings = EmptyBag
    /\ ret = [op |-> "none"]
    /\ lastUpsert = {}
    /\ nSaves = 0
    /\ InitRunVars
    /\ CrawlIdle(1)
    /\ TaxIdle
    /\ FetchIdle
    /\ \E label \in Labels :
          nl = [pc |-> "given", label |-> label, clean |-> <<>>, norm |-> <<>>,
                clean2 |-> <<>>, norm2 |-> <<>>]

NextLabel ==
    \/ Normalize
    \/ NormalizeAgain

SpecLabel == InitLabel /\ [][NextLabel]_vars

\* ---------------------------------------------------------- SpecCatalog
\* Arbitrary sequences of upsert_make / upsert_series / upsert_model.
InitCatalog ==
    /\ listings = EmptyBag
    /\ ret = [op |-> "none"]
    /\ lastUpsert = {}
    /\ nSaves = 0
    /\ InitRunVars
    /\ CrawlIdle(1)
    /\ AuxIdle

NextCatalog ==
    \/ \E label \in CatalogLabels : UpsertMake(label)
    \/ \E m \in makes, label \in CatalogLabels : UpsertSeries(m.id, label)
    \/ \E m \in makes, label \in CatalogLabels :
          \E s \in {NoId} \cup {r.id : r \in {x \in series : x.make_id = m.id}} :
             UpsertModel(m.id, s, label)

SpecCatalog == InitCatalog /\ [][NextCatalog]_vars

\* ------------------------------------------------------------- SpecSeed
\* seed_source_taxonomy run on one source tree, and run again.
InitSeed ==
    /\ listings = EmptyBag
    /\ ret = [op |-> "none"]
    /\ lastUpsert = {}
    /\ nSaves = 0
    /\ InitRunVars
    /\ CrawlIdle(1)
    /\ FetchIdle
    /\ LabelIdle
    /\ CatalogIdle
    /\ ResolveIdle
    /\ \E site \in {"autodiiler", "veego"}, t \in Trees :
          extractor = [source_site |-> site, nodes |-> t]

NextSeed == seed_source_taxonomy

SpecSeed == InitSeed /\ [][NextSeed]_vars

\* -------------------------------------------------------- SpecResolveOne
\* One site's tree is seeded, then one listing of the site is resolved.
InitResolveOne ==
    /\ listings = EmptyBag
    /\ ret = [op |-> "none"]
    /\ lastUpsert = {}
    /\ nSaves = 0
    /\ InitRunVars
    /\ CrawlIdle(1)
    /\ FetchIdle
    /\ LabelIdle
    /\ CatalogIdle
    /\ ResolveIdle
    /\ \E t \in ResolveTrees : extractor = [source_site |-> "veego", nodes |-> t]

NextResolveOne ==
    \/ seedRuns = 0 /\ seed_source_taxonomy
    \/ /\ seedRuns = 1
       /\ resolution = NoResolution
       /\ \E listing \in Listings(MaxNodes) : ResolveOne(listing)

SpecResolveOne == InitResolveOne /\ [][NextResolveOne]_vars

\* -------------------------------------------------------- SpecResolveAll
\* Scrapers save listings, a site's tree is seeded, and main() resolves
\* the unresolved listings, in any order.
InitResolveAll ==
    /\ listings = EmptyBag
    /\ ret = [op |-> "none"]
    /\ lastUpsert = {}
    /\ nSaves = 0
    /\ InitRunVars
    /\ CrawlIdle(1)
    /\ FetchIdle
    /\ LabelIdle
    /\ CatalogIdle
    /\ ResolveIdle
    /\ \E t \in {x \in ResolveTrees : Len(x) <= MaxPassNodes} :
          extractor = [source_site |-> "veego", nodes |-> t]

NextResolveAll ==
    \/ seedRuns = 0 /\ seed_source_taxonomy
    \/ \E listing \in Listings(0) : InsertListing(listing)
    \/ resolve_all_unresolved(ResolveLimit)

SpecResolveAll == InitResolveAll /\ [][NextResolveAll]_vars

\* ------------------------------------------------------------ SpecSites
\* Two sites are seeded one after the other while scrapers save listings
\* of both and main() resolves the unresolved listings.
InitSites ==
    /\ listings = EmptyBag
    /\ ret = [op |-> "none"]
    /\ lastUpsert = {}
    /\ nSaves = 0
    /\ InitRunVars
    /\ CrawlIdle(1)
    /\ AuxIdle

NextSites ==
    \/ \E e \in Extractors : SeedSite(e)
    \/ \E listing \in SiteListings : InsertListing(listing)
    \/ resolve_all_unresolved(ResolveLimit)

SpecSites == InitSites /\ [][NextSites]_vars

\* ------------------------------------------------------------ SpecRetry
\* One listing is saved, its site is seeded before or after a pass, and
\* main() is run again and again: a pass that can run does run.
NextRetry ==
    \/ /\ car_listings = {}
       /\ \E listing \in SiteListings : InsertListing(listing)
    \/ /\ car_listings # {}
       /\ \E e \in Extractors :
             /\ \E d \in car_listings : d.source_site = e.source_site
             /\ SeedSite(e)
    \/ resolve_all_unresolved(ResolveLimit)

SpecRetry ==
    /\ InitSites
    /\ [][NextRetry]_vars
    /\ WF_vars(resolve_all_unresolved(ResolveLimit))

\* ---------------------------------------------------------- SpecRecrawl
\* One listing is saved, the sites are seeded, main() resolves, and later
\* crawls save the listing again with other raw texts.
NextRecrawl ==
    \/ /\ car_listings = {}
       /\ \E listing \in SiteListings : InsertListing(listing)
    \/ /\ car_listings # {}
       /\ \E e \in Extractors : SeedSite(e)
    \/ resolve_all_unresolved(ResolveLimit)
    \/ \E d \in car_listings :
          \E item \in SiteListings :
             /\ item.source_site = d.source_site
             /\ item # [f \in DOMAIN item |-> d[f]]
             /\ Recrawl(d, item)

SpecRecrawl == InitSites /\ [][NextRecrawl]_vars

\* ------------------------------------------------------------ SpecStore
ItemLists == UNION {[1..n -> Payloads] : n \in 0..MaxItems}

InitStore ==
    /\ listings = EmptyBag
    /\ ret = [op |-> "none"]
    /\ lastUpsert = {}
    /\ nSaves = 0
    /\ InitRunVars
    /\ CrawlIdle(1)
    /\ AuxIdle

NextStore ==
    \/ \E item \in Payloads, r \in RunIds \cup {None} : save_listing(item, r)
    \/ \E items \in ItemLists, r \in RunIds \cup {None} :
           \E order \in Orders(Len(SelectValid(items))) : save_listings(items, r, order)
    \/ \E s \in Sites, r \in RunIds : delete_stale_listings(s, r)

SpecStore == InitStore /\ [][NextStore]_vars

\* --------------------------------------------------- properties of SpecStore
\* C2: a step of delete_stale_listings(S, r) removes exactly the listings
\* whose source_site is S and whose last_seen_run_id differs from r (a
\* missing last_seen_run_id differs from every r), returns how many it
\* removed, and leaves every other listing as it was.
C2_DeleteStaleExact ==
    [][ret'.op = "delete_stale_listings" =>
         LET S == ret'.source_site
             r == ret'.run_id
         IN  /\ \A d \in BagToSet(listings) :
                   CopiesIn(d, listings') =
                     IF d.source_site = S /\ (d.last_seen_run_id = None \/ d.last_seen_run_id # r)
                     THEN 0 ELSE CopiesIn(d, listings)
             /\ BagToSet(listings') \subseteq BagToSet(listings)
             /\ ret'.deleted = BagCardinality(listings) - BagCardinality(listings')
       ]_vars

\* C2's case: of the listings of S one was seen in run r and is kept, one
\* was not (seen in another run, or never marked) and has been deleted.
C2_Witness ==
    /\ ret.op = "delete_stale_listings"
    /\ ret.deleted = 1
    /\ \E d \in BagToSet(listings) :
           d.source_site = ret.source_site /\ d.last_seen_run_id = ret.run_id

\* At most one listing per source_url.
UniqueSourceUrl ==
    \A d \in BagToSet(listings) :
        /\ CopiesIn(d, listings) = 1
        /\ \A e \in BagToSet(listings) : e.source_url = d.source_url => e = d

\* The stored fields are those of the most recent upsert of the source_url.
LatestUpsertStored ==
    \A d \in BagToSet(listings) : \A h \in lastUpsert :
        h.source_url = d.source_url =>
            d.source_site = h.source_site /\ d.data = h.data

\* C4: after any sequence of save_listing / save_listings calls the store
\* holds at most one listing per source_url, and its fields are those of the
\* most recent upsert of that source_url (within one batch: of the last item
\* of the list that carries the source_url).
C4_UniqueAndLatest == UniqueSourceUrl /\ LatestUpsertStored

\* ----------------------------------------------------- properties of SpecRun
RunCompleted == run > 0 /\ mainPc = "idle"

CrawlSettled(a) == apc[a] \in {"closing", "done"}

UrlsOf(items) == {items[i].source_url : i \in 1..Len(items)}

Deleted(a) == \E i \in 1..Len(log) :
                 log[i].op = "delete_stale_listings" /\ log[i].adapter = a

WrittenByOther(a, url) == \E b \in Adapters \ {a} : url \in UrlsOf(did[b].saved)

\* C1: in a run, delete_stale_listings is called for a site only when that
\* site's crawl returned at least one listing; when the crawl returned no
\* listing or raised (or the scraper could not be constructed), every
\* listing of the site that was stored before the run is still stored,
\* untouched unless another adapter upserted its source_url in this run.
C1_DeleteOnlyAfterNonEmptyCrawl ==
    \A a \in Adapters :
        /\ Deleted(a) => /\ CrawlSettled(a)
                         /\ ~crawl[a].raised
                         /\ Len(crawl[a].listings) >= 1
        /\ (\/ CrawlSettled(a) /\ (crawl[a].raised \/ crawl[a].listings = <<>>)
            \/ out[a].kind = "raised")
           => \A d \in BagToSet(preRun) :
                  d.source_site = site_name(a)
                  => /\ Matching(listings, d.source_url) # {}
                     /\ ~WrittenByOther(a, d.source_url)
                        => CopiesIn(d, listings) = CopiesIn(d, preRun)

C1_Witness ==
    /\ RunCompleted
    /\ \E a \in Adapters :
          /\ out[a].kind = "zero"
          /\ \E d \in BagToSet(preRun) :
                d.source_site = site_name(a) /\ CopiesIn(d, listings) = 1
          /\ \E b \in Adapters \ {a} : Deleted(b) /\ out[b].kind = "ok"

\* A crawl of adapter a that succeeded in this run: it returned listings and
\* the save and the stale deletion went through.
CrawlSucceeded(a) == out[a].kind = "ok"

\* A listing of adapter a's site that was seen in the run before this one
\* and that this run's crawl of the site did not report.
MissedOnce(a, d) ==
    /\ run >= 2
    /\ d \in BagToSet(preRun)
    /\ d.source_site = site_name(a)
    /\ d.last_seen_run_id = RunNames[run - 1]
    /\ d.source_url \notin UrlsOf(crawl[a].listings)

\* C3 as stated: a listing that is missing from one successful crawl of its
\* site, and was present in the run before, is still stored when the run of
\* that crawl completes.
C3_KeptAfterOneMiss ==
    RunCompleted =>
        \A a \in Adapters : \A d \in BagToSet(preRun) :
            (CrawlSucceeded(a) /\ MissedOnce(a, d))
            => Matching(listings, d.source_url) # {}

\* C3 amended: one successful crawl suffices.  Once an adapter's save and
\* stale deletion have gone through in a run, every stored listing of its
\* site carries this run's id, and a listing of the site that the crawl
\* did not report is gone (unless another adapter upserted its source_url
\* in the same run).
C3_DeletedAfterOneMiss ==
    \A a \in Adapters :
        CrawlSucceeded(a) =>
            /\ \A d \in BagToSet(listings) :
                   d.source_site = site_name(a) => d.last_seen_run_id = RunNames[run]
            /\ \A d \in BagToSet(preRun) :
                   (/\ d.source_site = site_name(a)
                    /\ d.source_url \notin UrlsOf(crawl[a].listings)
                    /\ ~WrittenByOther(a, d.source_url))
                   => Matching(listings, d.source_url) = {}

C3_Witness ==
    /\ RunCompleted
    /\ \E a \in Adapters : \E d \in BagToSet(preRun) :
          /\ CrawlSucceeded(a)
          /\ MissedOnce(a, d)
          /\ Matching(listings, d.source_url) = {}

\* C6: an exception raised by one adapter, in the construction of its
\* scraper, its crawl, its save or its stale deletion, becomes that site's
\* entry of the result; no exception leaves run_all_scrapers_async, and when
\* it returns every adapter's task has run to completion and the result
\* holds exactly one entry per configured adapter, in their order.
C6_AdapterFailureIsolated ==
    /\ ~escaped
    /\ \A a \in Adapters : out[a].kind \in {"error", "raised"} => apc[a] = "done"
    /\ RunCompleted =>
          /\ Len(results) = NumAdapters
          /\ \A a \in Adapters :
                /\ apc[a] = "done"
                /\ out[a].kind = "raised"
                   => results[a].kind = "exception" /\ results[a].site = ClassNames[a]
                /\ out[a].kind # "raised"
                   => results[a] = out[a] /\ results[a].site = site_name(a)
                /\ results[a].kind \in {"ok", "zero", "error", "exception"}
                /\ results[a].kind \in {"ok", "zero"}
                   <=> (~crawl[a].raised /\ out[a].kind \notin {"error", "raised"})

C6_Witness ==
    /\ RunCompleted
    /\ ~escaped
    /\ \E a \in Adapters : \E b \in Adapters \ {a} :
          /\ results[a].kind = "exception"
          /\ results[b].kind = "ok"
          /\ UrlsOf(crawl[b].listings) \subseteq {d.source_url : d \in BagToSet(listings)}

\* C7: in a run, an adapter's stale deletion is directly preceded by that
\* adapter's save with the same run_id, which is the run's; an adapter
\* whose crawl was non-empty and whose task succeeded has done both, once;
\* resolve_all_unresolved is called with limit 0, not before every
\* adapter's task has finished, and exactly once by the end of the run.
C7_SaveThenDeleteThenResolve ==
    /\ \A i \in 1..Len(log) :
          /\ log[i].run_id = RunNames[run]
          /\ \A j \in 1..Len(log) :
                (log[j].adapter = log[i].adapter /\ log[j].op = log[i].op) => i = j
          /\ log[i].op = "delete_stale_listings"
             => /\ i > 1
                /\ log[i - 1].op = "save_listings"
                /\ log[i - 1].adapter = log[i].adapter
                /\ log[i - 1].run_id = log[i].run_id
    /\ \A a \in Adapters :
          out[a].kind = "ok"
          => \E i \in 1..Len(log) : \E j \in 1..Len(log) :
                /\ i < j
                /\ log[i] = Event("save_listings", a, RunNames[run])
                /\ log[j] = Event("delete_stale_listings", a, RunNames[run])
    /\ resolveCalls # <<>> => /\ resolveCalls = <<0>>
                              /\ \A a \in Adapters : apc[a] = "done"
    /\ mainPc = "gather" => resolveCalls = <<>>
    /\ RunCompleted => Len(resolveCalls) = 1

C7_Witness ==
    /\ RunCompleted
    /\ resolveCalls = <<0>>
    /\ Len(log) = 2 * NumAdapters
    /\ \A a \in Adapters : out[a].kind = "ok"

\* What one adapter did to the store in this run, replayed on a store: the
\* upserts its bulk write applied, in the order applied, then its stale
\* deletion if it ran.
Identity(n) == [i \in 1..n |-> i]

Replay(store, a) ==
    LET w == did[a].saved
        stored == ApplyOps(store, w, Identity(Len(w)), Len(w), RunNames[run])
    IN  IF did[a].deleted
        THEN delete_many_stale(stored, site_name(a), RunNames[run])
        ELSE stored

\* The adapters' effects one after another, in the order given.
RECURSIVE SequentialRun(_, _)
SequentialRun(store, order) ==
    IF order = <<>> THEN store
    ELSE SequentialRun(Replay(store, Head(order)), Tail(order))

AdapterOrders == {[i \in Adapters |-> f[i]] : f \in Orders(NumAdapters)}

\* No source_url is written by two adapters in this run, and no adapter
\* writes a source_url that the store held under another site.
DisjointWrites ==
    \A a \in Adapters : \A u \in UrlsOf(did[a].saved) :
        /\ ~WrittenByOther(a, u)
        /\ \A d \in BagToSet(preRun) : d.source_url = u => d.source_site = site_name(a)

LastWrite(a, u) ==
    LET w == did[a].saved
        last == CHOOSE i \in 1..Len(w) :
                    /\ w[i].source_url = u
                    /\ \A j \in 1..Len(w) : w[j].source_url = u => j <= i
    IN  w[last]

AdapterOf(site) == CHOOSE a \in Adapters : site_name(a) = site

\* The store the run must leave when the adapters' writes are disjoint.
FinalContent ==
    UNION {{NewDoc(LastWrite(a, u), RunNames[run]) : u \in UrlsOf(did[a].saved)} :
               a \in Adapters}
    \cup {d \in BagToSet(preRun) :
            /\ \A a \in Adapters : d.source_url \notin UrlsOf(did[a].saved)
            /\ ~did[AdapterOf(d.source_site)].deleted}

\* C8 as stated: whatever the completion order of the adapters' tasks, also
\* when two adapters write the same source_url, the run leaves the store
\* that the adapters' effects leave when applied in the configured order.
C8_SameForEveryOrder ==
    RunCompleted =>
        \A order \in AdapterOrders : listings = SequentialRun(preRun, order)

\* C8 amended: when no source_url is written by two adapters (and none is
\* taken over from another site), the run leaves the same store for every
\* completion order of the tasks: the last upsert each adapter applied per
\* source_url, plus the earlier listings that were neither upserted nor
\* removed by their own site's stale deletion.
C8_SameForEveryOrderWhenDisjoint ==
    (RunCompleted /\ DisjointWrites) =>
        /\ \A order \in AdapterOrders : listings = SequentialRun(preRun, order)
        /\ BagToSet(listings) = FinalContent
        /\ UniqueSourceUrl

C8_Witness ==
    /\ RunCompleted
    /\ DisjointWrites
    /\ preRun # EmptyBag
    /\ \A a \in Adapters : did[a].saved # <<>> /\ did[a].deleted
    /\ log[1].adapter = NumAdapters
    /\ listings # preRun

\* --------------------------------------------------- properties of SpecCrawl
\* The locators whose batch has been gathered.
Joined ==
    IF cpc = "listings" THEN (batch_num - 1) * batch_size
    ELSE IF cpc = "sleep" THEN batch_num * batch_size
    ELSE IF cpc = "done" THEN nUrls
    ELSE 0

\* The listings of the locators lo..hi whose task succeeded, in locator
\* order, each with its source_url and the crawler's site_name.
RECURSIVE OkListings(_, _)
OkListings(lo, hi) ==
    IF lo > hi THEN <<>>
    ELSE (IF status[lo] = "ok"
          THEN <<[source_url |-> urls[lo], source_site |-> site_name(crawler),
                  data |-> 1]>>
          ELSE <<>>) \o OkListings(lo + 1, hi)

\* C5: whatever subset of a batch's items fails (no page, no parse result,
\* a parse or a task that raises), scrape_all collects exactly the
\* listings of the items that succeeded, in locator order and annotated
\* with source_url and source_site; every item of a gathered batch has run
\* to its end, and scrape_all raises only before any listing was fetched.
C5_BatchFaultIsolation ==
    /\ cpc = "raised" => \A i \in 1..MaxLocators : status[i] = "notstarted"
    /\ all_listings = OkListings(1, Joined)
    /\ \A i \in 1..Joined : status[i] \in Outcomes
    /\ \A k \in 1..Len(all_listings) :
          /\ all_listings[k].source_site = site_name(crawler)
          /\ \E i \in 1..nUrls : all_listings[k].source_url = urls[i] /\ status[i] = "ok"
    /\ cpc = "done" => Len(all_listings) = Cardinality({i \in 1..nUrls : status[i] = "ok"})

C5_Witness ==
    /\ cpc = "done"
    /\ urls = <<"u1", "u2", "u3", "u4", "u5">>
    /\ status[1] = "ok"
    /\ status[2] = "task_raise"
    /\ status[3] = "fetch_none"
    /\ status[4] = "parse_raise"
    /\ status[5] = "ok"
    /\ all_listings = <<[source_url |-> "u1", source_site |-> site_name(crawler), data |-> 1],
                        [source_url |-> "u5", source_site |-> site_name(crawler), data |-> 1]>>

\* The number of batches of n locators.
CeilDiv(n) == IF n % batch_size = 0 THEN n \div batch_size ELSE n \div batch_size + 1

\* C9: the batches of scrape_all are the consecutive slices of batch_size
\* locators and run one after the other: while batch k is fetched, every
\* locator of an earlier batch has ended, none of a later batch has
\* started, and k - 1 sleeps were taken; during a sleep nothing is in
\* flight; a sleep follows every batch but the last, so a crawl of n > 0
\* locators ends with (number of batches - 1) sleeps.
C9_BatchesSequential ==
    LET lo == (batch_num - 1) * batch_size + 1
        hi == IF batch_num * batch_size < nUrls THEN batch_num * batch_size ELSE nUrls
    IN  /\ cpc = "listings" =>
              /\ batch_num \in 1..CeilDiv(nUrls)
              /\ sleeps = batch_num - 1
              /\ \A i \in 1..MaxLocators :
                    /\ i < lo => status[i] \in Outcomes
                    /\ (lo <= i /\ i <= hi) => status[i] # "notstarted"
                    /\ i > hi => status[i] = "notstarted"
        /\ cpc = "sleep" =>
              /\ batch_num < CeilDiv(nUrls)
              /\ sleeps = batch_num
              /\ \A i \in 1..MaxLocators :
                    /\ i <= hi => status[i] \in Outcomes
                    /\ i > hi => status[i] = "notstarted"
        /\ cpc = "done" =>
              /\ sleeps = IF nUrls = 0 THEN 0 ELSE CeilDiv(nUrls) - 1
              /\ nUrls > 0 => batch_num = CeilDiv(nUrls)
              /\ \A i \in 1..nUrls : status[i] \in Outcomes

C9_Witness ==
    /\ cpc = "done"
    /\ nUrls = 5
    /\ batch_num = 3
    /\ sleeps = 2

\* C10 as stated: at every moment of the crawl, the enumeration of the
\* locators included, at most batch_size fetches are in flight.
C10_AtMostBatchSizeInFlight == InFlight <= batch_size

\* C10 amended: the batches of get_listing_urls and of scrape_all, and the
\* fetches made one at a time, keep at most batch_size fetches in flight;
\* while the models of the makes are gathered there is one fetch per make
\* in flight, whatever batch_size is.
C10_InFlightBound ==
    /\ cpc # "models" => InFlight <= batch_size
    /\ cpc \in {"translator", "makes", "pages"} => InFlight = 1
    /\ cpc \in {"init", "pageSleep", "msmSleep", "sleep", "done", "raised"} => InFlight = 0
    /\ cpc = "models" => InFlight <= Len(tasks) /\ Len(tasks) <= MaxMakes

C10_Witness ==
    /\ cpc = "listings"
    /\ Enumeration(crawler) = "taxonomy"
    /\ nUrls > batch_size
    /\ InFlight = batch_size

\* C11: the locators get_listing_urls returns never hold the same URL
\* twice, also when the queries of two make/series/model combinations
\* return the same listing, so the list scrape_all returns holds no two
\* listings with the same source_url.
C11_NoDuplicateLocators ==
    /\ \A i, j \in 1..Len(urls) : urls[i] = urls[j] => i = j
    /\ \A i, j \in 1..Len(all_listings) :
          all_listings[i].source_url = all_listings[j].source_url => i = j

\* --------------------------------------------------- properties of SpecFetch
IsStatus(resp, code) == resp.kind = "status" /\ resp.code = code

\* C12: fetch_page issues at most max_retries requests; when every attempt
\* ends in a 403 or a timeout it makes max_retries requests, sleeping
\* between them, and returns None; a request answered with 200 is the
\* last one and its body is returned.
C12_BoundedRetries ==
    /\ Len(requests) <= max_retries
    /\ Len(naps) <= max_retries - 1
    /\ attempt < max_retries
    /\ fpc = "returned" => fetched.kind \in {"text", "none"}
    /\ (/\ fpc = "returned"
        /\ \A i \in 1..Len(requests) :
              IsStatus(requests[i], 403) \/ requests[i].kind = "timeout")
       => /\ fetched.kind = "none"
          /\ Len(requests) = max_retries
          /\ Len(naps) = max_retries - 1
    /\ \A i \in 1..Len(requests) :
          IsStatus(requests[i], 200)
          => i = Len(requests) /\ fpc = "returned" /\ fetched.kind = "text"

C12_Witness ==
    /\ fpc = "returned"
    /\ fetched.kind = "none"
    /\ Len(requests) = max_retries
    /\ IsStatus(requests[1], 403)
    /\ requests[2].kind = "timeout"
    /\ IsStatus(requests[3], 403)

\* C13: a response whose status is neither 200 nor 403 makes fetch_page
\* return None at once: it is the only request of the fetch and no backoff
\* sleep is taken.
C13_OtherStatusFailsAtOnce ==
    \A i \in 1..Len(requests) :
        (requests[i].kind = "status" /\ requests[i].code \notin {200, 403})
        => /\ Len(requests) = 1
           /\ naps = <<>>
           /\ fpc = "returned"
           /\ fetched.kind = "none"

\* C26: the backoff sleep that follows failed attempt n (counted from 0)
\* lasts 2^n seconds, whether the attempt ended in a 403 or in a timeout.
C26_ExponentialBackoff ==
    \A i \in 1..Len(naps) : naps[i] = 2 ^ (i - 1)

\* --------------------------------------------------- properties of SpecLabel
\* C14: normalizing twice gives what normalizing once gives, for
\* norm_label and for clean_label, and "2. seeria" and "2  seeria" both
\* normalize to "2 seeria".
C14_NormalizeIdempotent ==
    /\ nl.pc = "twice" => nl.norm2 = nl.norm /\ nl.clean2 = nl.clean
    /\ (nl.pc # "idle" /\ nl.pc # "given" /\ nl.label = <<"2", ".", " ", "seeria">>)
       => nl.norm = <<"2", " ", "seeria">>
    /\ (nl.pc # "idle" /\ nl.pc # "given" /\ nl.label = <<"2", " ", " ", "seeria">>)
       => nl.norm = <<"2", " ", "seeria">>

\* The label without its i-th symbol.
Without(label, i) == SubSeq(label, 1, i - 1) \o SubSeq(label, i + 1, Len(label))

\* C27: norm_label folds a digit and its dot into the digit and a blank,
\* so "2.seeria" normalizes to "2 seeria", and keeps a dot that stands
\* between two digits, so two labels that differ only by such a decimal
\* point ("2.2" and "22") have different norms.
C27_OrdinalFoldedDotKept ==
    (nl.pc # "idle" /\ nl.pc # "given") =>
       /\ nl.label = <<"2", ".", "seeria">> => nl.norm = <<"2", " ", "seeria">>
       /\ \A i \in 2..(Len(nl.label) - 1) :
             (IsDigit(nl.label[i - 1]) /\ nl.label[i] = "." /\ IsDigit(nl.label[i + 1]))
             => nl.norm # norm_label(Without(nl.label, i))

\* ------------------------------------------------- properties of SpecCatalog
SameScope(c, d) ==
    c.fn = d.fn /\ c.make_id = d.make_id /\ c.series_id = d.series_id

\* C15: upsert_make / upsert_series / upsert_model find or create by norm
\* within the scope: after any sequence of calls no two makes have the
\* same norm, no two series the same (make_id, norm), no two models the
\* same (make_id, series_id, norm), series_id None included; and of two
\* calls in one scope whose labels have the same norm_label, the later
\* returns the id the earlier returned and adds no row.
C15_FindOrCreateByNorm ==
    /\ \A r1, r2 \in makes : r1.norm = r2.norm => r1 = r2
    /\ \A r1, r2 \in series :
          r1.make_id = r2.make_id /\ r1.norm = r2.norm => r1 = r2
    /\ \A r1, r2 \in models :
          r1.make_id = r2.make_id /\ r1.series_id = r2.series_id /\ r1.norm = r2.norm
             => r1 = r2
    /\ \A i, j \in 1..Len(calls) :
          /\ i < j
          /\ SameScope(calls[i], calls[j])
          /\ norm_label(calls[i].label) = norm_label(calls[j].label)
          => calls[j].id = calls[i].id /\ calls[j].added = 0

\* A model was upserted twice directly under one make, under two spellings
\* of one norm.
C15_Witness ==
    \E i, j \in 1..Len(calls) :
       /\ i < j
       /\ calls[i].fn = "model" /\ calls[i].series_id = NoId
       /\ SameScope(calls[i], calls[j])
       /\ calls[i].label # calls[j].label
       /\ norm_label(calls[i].label) = norm_label(calls[j].label)
       /\ Cardinality(models) = 1

\* ---------------------------------------------------- properties of SpecSeed
\* Two nodes under one parent whose labels differ and have one norm_label.
Siblings(nodes, i, j) ==
    /\ i < j
    /\ nodes[i].level = nodes[j].level
    /\ seeded[i].make_canonical_id = seeded[j].make_canonical_id
    /\ seeded[i].series_canonical_id = seeded[j].series_canonical_id

SameNormSiblings(nodes, i, j) ==
    /\ Siblings(nodes, i, j)
    /\ nodes[i].label # nodes[j].label
    /\ norm_label(nodes[i].label) = norm_label(nodes[j].label)

\* C16: seed_source_taxonomy run a second time on the same tree leaves
\* makes, series, models and mappings (ids, labels, norms, source keys,
\* canonical ids, anchors) exactly as the first run left them, and adds
\* no row.
C16_SeedIdempotent ==
    seedRuns = 2 =>
       /\ Collections(DB) = firstSeed
       /\ Cardinality(makes) = Cardinality(firstSeed.makes)
       /\ Cardinality(series) = Cardinality(firstSeed.series)
       /\ Cardinality(models) = Cardinality(firstSeed.models)
       /\ Cardinality(mappings) = Cardinality(firstSeed.mappings)

\* The tree was seeded twice; it has four nodes, two of them models of one
\* series under two spellings of one norm.
C16_Witness ==
    /\ seedRuns = 2
    /\ Len(extractor.nodes) = 4
    /\ Len(seeded) = 4
    /\ \E i, j \in 1..4 :
          /\ extractor.nodes[i].level = "model"
          /\ seeded[i].series_canonical_id # NoId
          /\ SameNormSiblings(extractor.nodes, i, j)
    /\ Cardinality(mappings) = 3

\* C17: after seed_source_taxonomy for a site, the key lookup (site,
\* entity type, make anchor, native key) of every node of the tree finds
\* a mapping, and the mapping found has the canonical id of the entity
\* that was upserted for the node.
C17_EveryNodeFoundByKey ==
    seedRuns > 0 =>
       \A i \in 1..Len(extractor.nodes) :
          LET found == find_mapping_by_key(mappings, extractor.source_site,
                                           seeded[i].entity_type, SourceKey(i),
                                           seeded[i].make_canonical_id)
          IN /\ found # {}
             /\ \A r \in found : r.canonical_id = seeded[i].canonical_id

\* ---------------------------------------------- properties of SpecResolveOne
\* A listing with the texts resolve_one_listing requires was resolved.
Resolved ==
    /\ resolution # NoResolution
    /\ resolution.listing.make # <<>>
    /\ resolution.listing.model # <<>>

\* The mappings of an entity type that carry the native id under a make.
WithKey(entity_type, src_id, make_id) ==
    IF src_id = 0 THEN {}
    ELSE {r \in mappings : /\ r.source_site = resolution.listing.source_site
                           /\ r.entity_type = entity_type
                           /\ r.make_canonical_id = make_id
                           /\ r.source_key = str(src_id)}

\* The mappings of an entity type for the normalized label under a make
\* and a series.
WithText(entity_type, label, make_id, series_id) ==
    {r \in mappings : /\ r.source_site = resolution.listing.source_site
                      /\ r.entity_type = entity_type
                      /\ r.make_canonical_id = make_id
                      /\ r.series_canonical_id = series_id
                      /\ r.source_norm = norm_label(label)}

\* The id is the canonical id of one of the mappings, None when there is
\* none.
IdOf(id, rows) == IF rows = {} THEN id = NoId ELSE id \in {r.canonical_id : r \in rows}

\* C18: for a listing that has its make and model text, whose make
\* resolved and whose model is not found by a native id, the model is the
\* one of the text mapping anchored by the resolved make id and by exactly
\* the series id the series step resolved, None included: with a resolved
\* series the series-anchored mapping gives the model, never the
\* series-less one, and without one the mapping anchored on no series.
C18_ModelAnchoredBySeries ==
    Resolved /\ resolution.ids.make_id # NoId
             /\ WithKey("model", resolution.listing.source_taxonomy.model_id,
                        resolution.ids.make_id) = {}
    => /\ IdOf(resolution.ids.model_id,
               WithText("model", resolution.listing.model, resolution.ids.make_id,
                        resolution.ids.series_id))
       /\ \A r \in WithText("model", resolution.listing.model, resolution.ids.make_id, NoId) :
             resolution.ids.series_id # NoId => resolution.ids.model_id # r.canonical_id

\* A listing without native ids whose series resolved: its model label has
\* a series-less mapping and a mapping in that series, and the model of the
\* latter was returned.
C18_Witness ==
    /\ Resolved
    /\ resolution.listing.source_taxonomy = [make_id |-> 0, series_id |-> 0, model_id |-> 0]
    /\ resolution.ids.make_id # NoId
    /\ resolution.ids.series_id # NoId
    /\ WithText("model", resolution.listing.model, resolution.ids.make_id, NoId) # {}
    /\ \E r \in WithText("model", resolution.listing.model, resolution.ids.make_id,
                         resolution.ids.series_id) :
          resolution.ids.model_id = r.canonical_id

\* C19: for a listing that has its make and model text, at each of the
\* three levels: a mapping with the listing's native id under the required
\* make anchor gives the id, whatever the text mapping of the label says;
\* without a native id or a mapping for it the text mapping of the
\* normalized label gives the id (for the series only when the listing has
\* a series text); and with the make unresolved the series and the model
\* are unresolved.
C19_KeyBeforeText ==
    Resolved =>
       LET l == resolution.listing
           src == l.source_taxonomy
           ids == resolution.ids
           make_keys == WithKey("make", src.make_id, NoId)
           series_keys == WithKey("series", src.series_id, ids.make_id)
           model_keys == WithKey("model", src.model_id, ids.make_id)
       IN /\ IF make_keys # {}
             THEN IdOf(ids.make_id, make_keys)
             ELSE IdOf(ids.make_id, WithText("make", l.make, NoId, NoId))
          /\ ids.make_id = NoId => ids.series_id = NoId /\ ids.model_id = NoId
          /\ ids.make_id # NoId =>
                /\ IF series_keys # {}
                   THEN IdOf(ids.series_id, series_keys)
                   ELSE IF l.series # <<>>
                   THEN IdOf(ids.series_id, WithText("series", l.series, ids.make_id, NoId))
                   ELSE ids.series_id = NoId
                /\ IF model_keys # {}
                   THEN IdOf(ids.model_id, model_keys)
                   ELSE IdOf(ids.model_id,
                             WithText("model", l.model, ids.make_id, ids.series_id))

\* The listing's native model id has a mapping, the text mapping of its
\* model label is for another model, and the model of the native id was
\* returned.
C19_Witness ==
    /\ Resolved
    /\ resolution.ids.make_id # NoId
    /\ \E k \in WithKey("model", resolution.listing.source_taxonomy.model_id,
                        resolution.ids.make_id) :
          /\ resolution.ids.model_id = k.canonical_id
          /\ \E t \in WithText("model", resolution.listing.model, resolution.ids.make_id,
                               resolution.ids.series_id) :
                t.canonical_id # k.canonical_id

\* ---------------------------------------------- properties of SpecResolveAll
\* The field holds a canonical id.
HasId(x) == x # Missing /\ x # NoId

\* What a pass may do to a document: nothing, or write the three ids of
\* a resolution that has a make and a model.
WrittenWhole(d, docs) ==
    \/ d \in docs
    \/ \E ids \in resolve_one_listing(mappings, d) :
          /\ both_resolved(ids)
          /\ update_ids(d, ids) \in docs

\* C20: resolve_all_unresolved writes make_id, series_id and model_id of a
\* listing together and only when the make and the model resolved: no
\* listing ever has a make_id without a model_id or a model_id without a
\* make_id, a listing whose make or model does not resolve stays as it
\* was, and the updated and skipped counts of a pass add up to the
\* listings it visited.
C20_AllOrNothing ==
    /\ [](\A d \in car_listings : HasId(d.make_id) <=> HasId(d.model_id))
    /\ [](\A i \in 1..Len(passes) :
             passes[i].updated + passes[i].skipped = passes[i].visited)
    /\ [][\A d \in car_listings :
             /\ WrittenWhole(d, car_listings')
             /\ (\A ids \in resolve_one_listing(mappings, d) : ~both_resolved(ids))
                   => d \in car_listings']_vars

\* A pass visited two listings: it wrote the ids of one, and the other,
\* whose make resolves and whose model does not, has none of the ids.
C20_Witness ==
    /\ Len(passes) > 0
    /\ passes[Len(passes)] = [updated |-> 1, skipped |-> 1, visited |-> 2]
    /\ \E d \in car_listings : HasId(d.make_id) /\ HasId(d.model_id)
    /\ \E d \in car_listings :
          /\ d.make_id = Missing /\ d.series_id = Missing /\ d.model_id = Missing
          /\ \E ids \in resolve_one_listing(mappings, d) :
                ids.make_id # NoId /\ ids.model_id = NoId

\* C24: after seeding, the text lookup for the raw label of every seeded
\* node, anchored by the canonical ids of the node's parents, finds a
\* mapping, and the mapping points to the entity seeding upserted for the
\* node.
C24_TextFindsSeeded ==
    seedRuns > 0 =>
       \A i \in 1..Len(extractor.nodes) :
          LET found == find_mapping_by_text(mappings, extractor.source_site,
                                            extractor.nodes[i].level,
                                            extractor.nodes[i].label,
                                            seeded[i].make_canonical_id,
                                            seeded[i].series_canonical_id)
          IN /\ found # {}
             /\ \A r \in found : r.canonical_id = seeded[i].canonical_id

\* --------------------------------------------------- properties of SpecSites
\* No mapping of the listing's site exists.
SiteUnseeded(d) == \A r \in mappings : r.source_site # d.source_site

NoIds(d) == d.make_id = Missing /\ d.series_id = Missing /\ d.model_id = Missing

\* resolve_one_listing can only return a make and a model for the listing.
Resolvable(d) ==
    \A ids \in resolve_one_listing(mappings, d) : both_resolved(ids)

\* The catalog holds a make and, under it, a model with the norms of the
\* listing's make and model texts.
InCatalog(d) ==
    \E mk \in makes, md \in models :
       /\ mk.norm = norm_label(d.make)
       /\ md.make_id = mk.id
       /\ md.norm = norm_label(d.model)

\* C21: a pass of resolve_all_unresolved leaves the mappings and the
\* catalog as they are, and a listing of a site that has no mapping has
\* none of the canonical ids, whatever the catalog holds: it can have them
\* only after seed_source_taxonomy has run for its site.
C21_ResolutionOnlyReads ==
    /\ [][passes' # passes =>
             /\ mappings' = mappings
             /\ makes' = makes /\ series' = series /\ models' = models
             /\ nextId' = nextId]_vars
    /\ [](\A d \in car_listings : SiteUnseeded(d) => NoIds(d))

\* A pass skipped a listing whose site is not seeded while the catalog,
\* seeded from the other site, holds its make and model.
C21_Witness ==
    /\ Len(passes) > 0
    /\ passes[Len(passes)].skipped > 0
    /\ \E d \in car_listings : SiteUnseeded(d) /\ NoIds(d) /\ InCatalog(d)

\* The listing with this id is unresolved and its mappings are there.
Pending(i) ==
    \E d \in car_listings : d.id = i /\ d.make_id = Missing /\ Resolvable(d)

ResolvedDoc(i) ==
    \E d \in car_listings : d.id = i /\ HasId(d.make_id) /\ HasId(d.model_id)

\* C22: a listing a pass skips keeps none of the canonical ids and is
\* selected by the next pass; a pass (limit=0) writes the ids of every
\* selected listing whose mappings are there; and as main() keeps being
\* run, every unresolved listing whose mappings have been seeded is
\* resolved in the end.
C22_MissRetried ==
    /\ [][passes' # passes =>
             \A d \in unresolved_query(car_listings) :
                /\ Resolvable(d) => \E ids \in resolve_one_listing(mappings, d) :
                                       update_ids(d, ids) \in car_listings'
                /\ ~Resolvable(d) => /\ d \in car_listings'
                                     /\ NoIds(d) => d \in unresolved_query(car_listings')]_vars
    /\ \A i \in 1..MaxListings :
          (Pending(i) /\ Len(passes) < MaxPasses) ~> ResolvedDoc(i)

\* The first pass skipped the one listing there was, the site was seeded,
\* and the second pass resolved it.
C22_Witness ==
    /\ Len(passes) = 2
    /\ passes[1] = [updated |-> 0, skipped |-> 1, visited |-> 1]
    /\ passes[2].updated = 1
    /\ \E d \in car_listings : d.id = 1 /\ HasId(d.make_id) /\ HasId(d.model_id)

\* Two resolved listings of different sites whose make texts have one norm
\* and whose model texts have one norm.
SameCar(d, e) ==
    /\ d.source_site # e.source_site
    /\ HasId(d.make_id) /\ HasId(d.model_id)
    /\ HasId(e.make_id) /\ HasId(e.model_id)
    /\ norm_label(d.make) = norm_label(e.make)
    /\ norm_label(d.model) = norm_label(e.model)

C25_EnumeratedNotDeleted ==
    [][\A i \in 1..nUrls :
          Matching(listings, urls[i]) # {} => Matching(listings', urls[i]) # {}]_vars

\* --------------------------------------------------- properties of SpecVeego
\* C28: _fetch_makes returns one (make_id, make_label) pair for every make
\* object of the response, in their order, so that iter_makes yields every
\* make; it returns [] only when the request or the decoding failed, the
\* response is no list, or the list is empty.
C28_OnePairPerMake ==
    veego.pc = "done" =>
       /\ veego.response.kind = "list" =>
             /\ veego.returned = [i \in 1..Len(veego.response.body) |->
                                     Pair(veego.response.body[i])]
             /\ Len(veego.yielded) = Len(veego.response.body)
       /\ veego.returned = <<>> =>
             veego.response.kind # "list" \/ veego.response.body = <<>>

\* ------------------------------------------------- properties of SpecRecrawl
\* C29: a listing that has make_id and model_id keeps its make_id,
\* series_id and model_id in every later step, whether a crawl saves it
\* again with other raw texts or a pass of resolve_all_unresolved runs.
C29_ResolvedIdsKept ==
    [][\A d \in car_listings :
          (HasId(d.make_id) /\ HasId(d.model_id)) =>
             \E e \in car_listings' :
                /\ e.id = d.id
                /\ e.make_id = d.make_id
                /\ e.series_id = d.series_id
                /\ e.model_id = d.model_id]_vars

\* A resolved listing was saved again with a model text that no mapping
\* of its site has, and a pass has run since it was resolved.
C29_Witness ==
    /\ Len(passes) = 2
    /\ passes[1].updated = 1
    /\ passes[2].visited = 0
    /\ \E d \in car_listings :
          /\ HasId(d.make_id) /\ HasId(d.model_id)
          /\ d.model = <<"2">>
          /\ \A ids \in resolve_one_listing(mappings, d) : ids.model_id = NoId

\* ---------------------------------------------- further properties of SpecRun
OfSite(store, a) == {d \in BagToSet(store) : d.source_site = site_name(a)}

\* The step runs delete_stale_listings for adapter a.
DeleteStep(a) ==
    \E i \in (Len(log) + 1)..Len(log') :
       log'[i].op = "delete_stale_listings" /\ log'[i].adapter = a

\* Another adapter upserted, in this run, the source_url of a listing the
\* site had before the run or of one adapter a saved.
TakenOver(a) ==
    \E u \in {d.source_url : d \in OfSite(preRun, a)} \cup UrlsOf(did[a].saved) :
       WrittenByOther(a, u)

\* C30: when delete_stale_listings(S, run_id) runs, a stored listing has
\* source_site S and last_seen_run_id run_id, and it is left; so a site
\* that had listings before a run has at least one after it, whatever its
\* crawl returned (unless another adapter upserted, under its own
\* site_name, a source_url of the site in that run).
C30_DeleteNeverEmptiesSite ==
    /\ [][\A a \in Adapters :
             DeleteStep(a) =>
                \E d \in OfSite(listings', a) : d.last_seen_run_id = RunNames[run]]_vars
    /\ [](RunCompleted =>
             \A a \in Adapters :
                (OfSite(preRun, a) # {} /\ ~TakenOver(a)) => OfSite(listings, a) # {})

\* A run is over in which the stale deletion of a site removed a listing
\* the site had before the run, and the site has a listing left.
C30_Witness ==
    /\ RunCompleted
    /\ \E a \in Adapters :
          /\ did[a].deleted
          /\ ~TakenOver(a)
          /\ \E d \in OfSite(preRun, a) : Matching(listings, d.source_url) = {}
          /\ OfSite(listings, a) # {}

====
